---- MODULE Spec2Model ----
(***************************************************************************)
(* Model of the trip planner: the trip period generator and the            *)
(* orchestration of main.py, the browser-driven flight search of           *)
(* src/flight_finder.py and the spreadsheet access of                      *)
(* src/sheets_manager.py.                                                  *)
(*                                                                         *)
(* A date string "YYYY-MM-DD" is the triple <<y, m, d>> of its fields; a    *)
(* datetime (always at midnight here) is its proleptic Gregorian ordinal.  *)
(* An optional configuration value is <<>> for Python's None and <<v>> for *)
(* the value v.                                                            *)
(***************************************************************************)
EXTENDS Integers, Sequences, FiniteSets, TLC

VARIABLES
    \* ---- main.py: configuration and trip period generation ----
    weekend_dates,          \* config['weekend_dates']: sequence of date strings
    trip_length_options,    \* config['trip_length_options']: sequence of tags
    mpc,                    \* position of main in the generator
    di,                     \* index of the date string being parsed
    parsed_weekend_dates,   \* datetimes parsed so far
    ai,                     \* index of sat_date in parsed_weekend_dates
    oj,                     \* index of length_option in trip_length_options
    all_trip_periods,       \* the generated trip_info records
    period_src,             \* history: <<ai, oj>> each trip_info was made from
    \* ---- src/flight_finder.py: one call of find_flights_selenium ----
    origin_airport_options, \* traveler_info['origin_airport_options']
    destination_airports,   \* destination_airports argument
    traveler_budget,        \* traveler_info.get('budget')
    preferred_times,        \* traveler_info.get('preferred_times', {})
    spc,                    \* position inside find_flights_selenium
    driver,                 \* the automation session: "unset", "None", "open", "quit"
    search_success_status,  \* local search_success_status
    flight_results_summary, \* local flight_results_summary
    exc,                    \* exception propagating to the top-level handlers
    retval,                 \* <<"pending">>, then <<"None">> or <<"list", records>>
    slider_k,               \* index of the time slider being set
    slider_op,              \* the last slider-setting operation and what it did
    ui_log,                 \* history: stages that acted on the session, in order
    quit_count,             \* history: number of driver.quit() calls
    sessions_created,       \* history: number of sessions get_webdriver created
    \* ---- src/sheets_manager.py: get_authenticated_service ----
    auth_pc,                \* position inside get_authenticated_service
    creds,                  \* local creds: None or the credentials' properties
    token_file,             \* os.path.exists(TOKEN_FILE)
    credentials_file,       \* os.path.exists(CREDENTIALS_FILE)
    auth_depth,             \* number of recursive calls below the top-level call
    auth_result,            \* <<"pending">>, <<"None">>, <<"client">> or <<"raised">>
    auth_log,               \* history: what the call did, in order
    \* ---- src/sheets_manager.py: create_spreadsheet ----
    sheet_pc,               \* position inside create_spreadsheet
    sheet_gc,               \* argument gc: "None" or "client"
    sheet_title,            \* argument title
    sheet_folder_id,        \* argument folder_id: None or <<id>>
    sheet_result,           \* <<"pending">>, <<"None">> or <<"spreadsheet", where>>
    sheet_log,              \* history: the calls issued on the client, in order
    \* ---- main.py: main ----
    config,                 \* what load_config returned: None or <<dict>>
    main_pc,                \* position inside main
    main_log,               \* history: the stages main started, in order
    trip_i,                 \* index i of trip_period in all_trip_periods
    traveler_j,             \* index of traveler in config['travelers']
    current_option_flights, \* local current_option_flights
    all_trip_data_for_sheet,\* local all_trip_data_for_sheet
    flights_log             \* history: <<i, traveler index, what find_flights returned>>

genVars == <<weekend_dates, trip_length_options, mpc, di, parsed_weekend_dates,
             ai, oj, all_trip_periods, period_src>>

searchVars == <<origin_airport_options, destination_airports, traveler_budget,
                preferred_times, spc, driver, search_success_status,
                flight_results_summary, exc, retval, slider_k, slider_op, ui_log,
                quit_count, sessions_created>>

authVars == <<auth_pc, creds, token_file, credentials_file, auth_depth,
              auth_result, auth_log>>

sheetVars == <<sheet_pc, sheet_gc, sheet_title, sheet_folder_id, sheet_result,
               sheet_log>>

mainVars == <<config, main_pc, main_log, trip_i, traveler_j,
              current_option_flights, all_trip_data_for_sheet, flights_log>>

\* everything outside the generator and the flight search
orchVars == <<authVars, sheetVars, mainVars>>

vars == <<genVars, searchVars, orchVars>>

\* Python's None for an optional configuration value, and a present value
None == <<>>
Some(v) == <<v>>

\* ------------------------------------------------------------------------
\* placeholder state of the calls that are not under study
\* ------------------------------------------------------------------------
AuthIdle ==
    /\ auth_pc = "idle"
    /\ creds = None
    /\ token_file = FALSE
    /\ credentials_file = FALSE
    /\ auth_depth = 0
    /\ auth_result = <<"pending">>
    /\ auth_log = <<>>

SheetIdle ==
    /\ sheet_pc = "idle"
    /\ sheet_gc = "None"
    /\ sheet_title = ""
    /\ sheet_folder_id = None
    /\ sheet_result = <<"pending">>
    /\ sheet_log = <<>>

MainIdle ==
    /\ config = None
    /\ main_pc = "idle"
    /\ main_log = <<>>
    /\ trip_i = 0
    /\ traveler_j = 0
    /\ current_option_flights = <<>>
    /\ all_trip_data_for_sheet = <<>>
    /\ flights_log = <<>>

\* ------------------------------------------------------------------------
\* Bounds of the model
\* ------------------------------------------------------------------------
MaxDates == 2
MaxOptions == 3

BoundedSeq(S, n) == UNION {[1..k -> S] : k \in 0..n}

\* Date strings of the configuration: an ordinary Saturday, the day after a
\* leap day, New Year's Day, and a string strptime rejects (Feb 29 of a
\* non-leap year).
DateStrings == {<<2025, 6, 7>>, <<2024, 3, 1>>, <<2025, 1, 1>>, <<2025, 2, 29>>}

\* Length option tags of the configuration: the three known ones and an
\* unknown one.
OptionTags == {"none", "friday_off", "monday_off", "week_off"}

\* ------------------------------------------------------------------------
\* datetime arithmetic used by main (strptime, timedelta, strftime)
\* ------------------------------------------------------------------------
IsLeap(y) == y % 4 = 0 /\ (y % 100 # 0 \/ y % 400 = 0)

DaysInMonth(y, m) ==
    IF m = 2 THEN (IF IsLeap(y) THEN 29 ELSE 28)
    ELSE IF m \in {4, 6, 9, 11} THEN 30 ELSE 31

DaysBeforeYear(y) ==
    LET p == y - 1 IN p * 365 + (p \div 4) - (p \div 100) + (p \div 400)

RECURSIVE DaysBeforeMonth(_, _)
DaysBeforeMonth(y, m) ==
    IF m <= 1 THEN 0 ELSE DaysBeforeMonth(y, m - 1) + DaysInMonth(y, m - 1)

\* datetime.toordinal of the date y-m-d
Ymd2Ord(y, m, d) == DaysBeforeYear(y) + DaysBeforeMonth(y, m) + d

\* datetime.fromordinal: the 400/100/4/1-year cycle decomposition
Ord2Ymd(ord) ==
    LET n0   == ord - 1
        n400 == n0 \div 146097
        r400 == n0 % 146097
        n100 == r400 \div 36524
        r100 == r400 % 36524
        n4   == r100 \div 1461
        r4   == r100 % 1461
        n1   == r4 \div 365
        r1   == r4 % 365
        year == n400 * 400 + 1 + n100 * 100 + n4 * 4 + n1
    IN  IF n1 = 4 \/ n100 = 4
        THEN <<year - 1, 12, 31>>
        ELSE LET month == CHOOSE m \in 1..12 :
                              /\ DaysBeforeMonth(year, m) <= r1
                              /\ r1 < DaysBeforeMonth(year, m) + DaysInMonth(year, m)
             IN  <<year, month, r1 - DaysBeforeMonth(year, month) + 1>>

\* mutant of StrptimeFails: the day is only checked against 31, never against
\* the length of the month
StrptimeFails_NoMonthLength(s) ==
    \/ s[1] < 1 \/ s[1] > 9999
    \/ s[2] < 1 \/ s[2] > 12
    \/ s[3] < 1 \/ s[3] > 31

\* datetime.strptime(date_str, "%Y-%m-%d") raises ValueError on these
StrptimeFails(s) ==
    \/ s[1] < 1 \/ s[1] > 9999
    \/ s[2] < 1 \/ s[2] > 12
    \/ s[3] < 1 \/ s[3] > DaysInMonth(s[1], s[2])

strptime(s) == Ymd2Ord(s[1], s[2], s[3])

strftime(dt) == Ord2Ymd(dt)

\* dt + timedelta(days = n)
timedelta(dt, n) == dt + n

\* ------------------------------------------------------------------------
\* main.py: trip period generation
\* ------------------------------------------------------------------------
KnownOption(length_option) ==
    length_option \in {"none", "friday_off", "monday_off"}

\* mutant of TripOffsets: "friday_off" copied from "none" without widening it
TripOffsets_FridayAsNone(length_option) ==
    CASE length_option = "none"       -> <<-1, 1>>
      [] length_option = "friday_off" -> <<-1, 1>>
      [] length_option = "monday_off" -> <<-1, 2>>

\* <<days added for start_date, days added for end_date>>
TripOffsets(length_option) ==
    CASE length_option = "none"       -> <<-1, 1>>
      [] length_option = "friday_off" -> <<-2, 1>>
      [] length_option = "monday_off" -> <<-1, 2>>

DescriptionLabel(length_option) ==
    CASE length_option = "none"       -> "Weekend (Fri-Sun)"
      [] length_option = "friday_off" -> "Friday Off (Thu-Sun)"
      [] length_option = "monday_off" -> "Monday Off (Fri-Mon)"

\* mutant of TripInfo: the two offsets are applied the wrong way round
TripInfo_SwappedOffsets(sat_date, length_option) ==
    LET start_date == timedelta(sat_date, TripOffsets(length_option)[2])
        end_date   == timedelta(sat_date, TripOffsets(length_option)[1])
    IN  [description       |-> <<DescriptionLabel(length_option),
                                 strftime(start_date), strftime(end_date)>>,
         start_date_str    |-> strftime(start_date),
         end_date_str      |-> strftime(end_date),
         start_date_obj    |-> start_date,
         end_date_obj      |-> end_date,
         original_saturday |-> strftime(sat_date)]

TripInfo(sat_date, length_option) ==
    LET start_date == timedelta(sat_date, TripOffsets(length_option)[1])
        end_date   == timedelta(sat_date, TripOffsets(length_option)[2])
    IN  [description       |-> <<DescriptionLabel(length_option),
                                 strftime(start_date), strftime(end_date)>>,
         start_date_str    |-> strftime(start_date),
         end_date_str      |-> strftime(end_date),
         start_date_obj    |-> start_date,
         end_date_obj      |-> end_date,
         original_saturday |-> strftime(sat_date)]

\* one iteration of "for date_str in config.get('weekend_dates', [])"
ParseDate ==
    /\ mpc = "parse_dates"
    /\ di <= Len(weekend_dates)
    /\ parsed_weekend_dates' =
         IF StrptimeFails(weekend_dates[di])
         THEN parsed_weekend_dates
         ELSE Append(parsed_weekend_dates, strptime(weekend_dates[di]))
    /\ di' = di + 1
    /\ UNCHANGED <<weekend_dates, trip_length_options, mpc, ai, oj,
                   all_trip_periods, period_src>>
    /\ UNCHANGED <<searchVars, orchVars>>

\* the date loop is exhausted: the nested generation loops begin
ParseDone ==
    /\ mpc = "parse_dates"
    /\ di > Len(weekend_dates)
    /\ mpc' = "gen_periods"
    /\ ai' = 1
    /\ oj' = 1
    /\ UNCHANGED <<weekend_dates, trip_length_options, di, parsed_weekend_dates,
                   all_trip_periods, period_src>>
    /\ UNCHANGED <<searchVars, orchVars>>

\* mutant of GenPeriod: a trip_info equal to one already generated is dropped
GenPeriod_Dedup ==
    /\ mpc = "gen_periods"
    /\ ai <= Len(parsed_weekend_dates)
    /\ oj <= Len(trip_length_options)
    /\ KnownOption(trip_length_options[oj])
    /\ LET info == TripInfo(parsed_weekend_dates[ai], trip_length_options[oj])
           seen == \E k \in 1..Len(all_trip_periods) : all_trip_periods[k] = info
       IN  /\ all_trip_periods' =
                IF seen THEN all_trip_periods ELSE Append(all_trip_periods, info)
           /\ period_src' =
                IF seen THEN period_src ELSE Append(period_src, <<ai, oj>>)
    /\ oj' = oj + 1
    /\ UNCHANGED <<weekend_dates, trip_length_options, mpc, di,
                   parsed_weekend_dates, ai>>
    /\ UNCHANGED <<searchVars, orchVars>>

\* one iteration of "for length_option in trip_length_options" with a known tag
GenPeriod ==
    /\ mpc = "gen_periods"
    /\ ai <= Len(parsed_weekend_dates)
    /\ oj <= Len(trip_length_options)
    /\ KnownOption(trip_length_options[oj])
    /\ all_trip_periods' =
         Append(all_trip_periods,
                TripInfo(parsed_weekend_dates[ai], trip_length_options[oj]))
    /\ period_src' = Append(period_src, <<ai, oj>>)
    /\ oj' = oj + 1
    /\ UNCHANGED <<weekend_dates, trip_length_options, mpc, di,
                   parsed_weekend_dates, ai>>
    /\ UNCHANGED <<searchVars, orchVars>>

\* mutant of SkipUnknownOption: break instead of continue
SkipUnknownOption_Break ==
    /\ mpc = "gen_periods"
    /\ ai <= Len(parsed_weekend_dates)
    /\ oj <= Len(trip_length_options)
    /\ ~KnownOption(trip_length_options[oj])
    /\ oj' = Len(trip_length_options) + 1
    /\ UNCHANGED <<weekend_dates, trip_length_options, mpc, di,
                   parsed_weekend_dates, ai, all_trip_periods, period_src>>
    /\ UNCHANGED <<searchVars, orchVars>>

\* one iteration of the inner loop with an unknown tag: warning and continue
SkipUnknownOption ==
    /\ mpc = "gen_periods"
    /\ ai <= Len(parsed_weekend_dates)
    /\ oj <= Len(trip_length_options)
    /\ ~KnownOption(trip_length_options[oj])
    /\ oj' = oj + 1
    /\ UNCHANGED <<weekend_dates, trip_length_options, mpc, di,
                   parsed_weekend_dates, ai, all_trip_periods, period_src>>
    /\ UNCHANGED <<searchVars, orchVars>>

\* the inner loop is exhausted: next sat_date
NextSatDate ==
    /\ mpc = "gen_periods"
    /\ ai <= Len(parsed_weekend_dates)
    /\ oj > Len(trip_length_options)
    /\ ai' = ai + 1
    /\ oj' = 1
    /\ UNCHANGED <<weekend_dates, trip_length_options, mpc, di,
                   parsed_weekend_dates, all_trip_periods, period_src>>
    /\ UNCHANGED <<searchVars, orchVars>>

\* the outer loop is exhausted: all_trip_periods is complete
GenDone ==
    /\ mpc = "gen_periods"
    /\ ai > Len(parsed_weekend_dates)
    /\ mpc' = "gen_done"
    /\ UNCHANGED <<weekend_dates, trip_length_options, di, parsed_weekend_dates,
                   ai, oj, all_trip_periods, period_src>>
    /\ UNCHANGED <<searchVars, orchVars>>

\* ------------------------------------------------------------------------
\* Python arithmetic used by the slider code.  "/" is true division on
\* floats: a value is kept as the reduced fraction n/d it would have in
\* exact arithmetic, with the flag exact telling whether the double holds
\* exactly that fraction (a quotient whose reduced denominator is not a
\* power of two is rounded).  d = 0 stands for a raised ZeroDivisionError.
\* ------------------------------------------------------------------------
Abs(i) == IF i < 0 THEN -i ELSE i

Max(a, b) == IF a >= b THEN a ELSE b

Min(a, b) == IF a <= b THEN a ELSE b

RECURSIVE Gcd(_, _)
Gcd(a, b) == IF b = 0 THEN a ELSE Gcd(b, a % b)

RECURSIVE IsPowerOfTwo(_)
IsPowerOfTwo(d) ==
    \/ d = 1
    \/ d > 1 /\ d % 2 = 0 /\ IsPowerOfTwo(d \div 2)

ZeroDivisionError == [n |-> 0, d |-> 0, exact |-> TRUE]

Float(i) == [n |-> i, d |-> 1, exact |-> TRUE]

\* the double nearest to n/d, computed from operands that were exact or not
Rounded(n, d, operands_exact) ==
    LET g  == Gcd(Abs(n), Abs(d))
        sg == IF d < 0 THEN -1 ELSE 1
        rn == (sg * n) \div g
        rd == (sg * d) \div g
    IN [n |-> rn, d |-> rd,
        exact |-> rn = 0 \/ (operands_exact /\ IsPowerOfTwo(rd))]

TrueDiv(x, y) ==
    IF x.d = 0 \/ y.d = 0 \/ y.n = 0
    THEN ZeroDivisionError
    ELSE Rounded(x.n * y.d, x.d * y.n, x.exact /\ y.exact)

Mul(x, y) ==
    IF x.d = 0 \/ y.d = 0
    THEN ZeroDivisionError
    ELSE Rounded(x.n * y.n, x.d * y.d, x.exact /\ y.exact)

Floor(x) == x.n \div x.d

Ceil(x) == -((-x.n) \div x.d)

\* The slider code multiplies two quotients: with R = max - min, st the
\* step, W the track width and D = target - current it computes
\* (D / st) * (W / (R / st)), whose exact value is D * W / R.  When a
\* quotient was rounded and the exact product is an integer X, the double
\* product is X or a neighbour of X.  RoundedAway lists the <<R, st, W, |D|>>
\* for which CPython's double lies beyond X, away from zero, among all
\* R <= 6, st in -2..5, W <= 7 and among the page sliders used below; for
\* every other tabulated configuration the double is X itself.
RoundedAway == {<<3, 5, 7, 3>>, <<5, 3, 7, 5>>, <<6, 5, 7, 6>>}

Tabulated(R, st, W, D) ==
    \/ R <= 6 /\ st >= -2 /\ st <= 5 /\ W <= 7
    \/ /\ <<R, st, W>> \in {<<1000, 50, 500>>, <<1000, 50, 333>>,
                            <<200, 50, 500>>, <<24, 1, 240>>}
       /\ (Abs(D) <= 6 \/ Abs(D) \in {8, 200, 300})

\* the possible signs of (double product - exact product); outside the
\* tabulated configurations the direction of the rounding is left open
DoubleErrors(R, st, W, D) ==
    IF Tabulated(R, st, W, D)
    THEN {IF <<R, st, W, Abs(D)>> \in RoundedAway
          THEN (IF D > 0 THEN 1 ELSE -1) ELSE 0}
    ELSE {-1, 0, 1}

\* math.ceil of the double product x whose rounding error has a sign in errs
MathCeil(x, errs) ==
    IF x.exact \/ x.d # 1
    THEN {Ceil(x)}
    ELSE {IF e > 0 THEN x.n + 1 ELSE x.n : e \in errs}

\* int() of the double product x truncates towards zero
IntTrunc(x, errs) ==
    IF x.exact \/ x.d # 1
    THEN {IF x.n >= 0 THEN Floor(x) ELSE Ceil(x)}
    ELSE {IF x.n > 0 /\ e < 0 THEN x.n - 1
          ELSE IF x.n < 0 /\ e > 0 THEN x.n + 1
          ELSE x.n : e \in errs}

\* ------------------------------------------------------------------------
\* src/flight_finder.py: the slider code.  A slider is what the page
\* declares: the input's min, max, step and value attributes and the width
\* of its track in pixels.
\* ------------------------------------------------------------------------
MaxSliderValue == 3

MaxStep == 2

MaxTrackWidth == 4

ExampleSlider ==
    [min |-> 0, max |-> 1000, step |-> 50, value |-> 0, width |-> 500]

OddWidthSlider ==
    [min |-> 0, max |-> 1000, step |-> 50, value |-> 0, width |-> 333]

\* a slider whose quotients 3/5 and 7/(3/5) are both rounded by the doubles
RoundingSlider ==
    [min |-> 0, max |-> 3, step |-> 5, value |-> 0, width |-> 7]

SliderSettings ==
    {s \in [min : 0..MaxSliderValue, max : 0..MaxSliderValue,
            step : -1..MaxStep, value : 0..MaxSliderValue,
            width : 0..MaxTrackWidth] :
        s.min <= s.value /\ s.value <= s.max}
    \cup {ExampleSlider, OddWidthSlider, RoundingSlider,
          [RoundingSlider EXCEPT !.step = 1]}

SliderTargets == (-1..(MaxSliderValue + 1)) \cup {300}

NoSliderOp == [kind |-> "none"]

Clamp_UpperOnly(min_val, max_val, target_value) == Min(max_val, target_value)

\* lines 72 and 400: max(min, min(max, target))
Clamp(min_val, max_val, target_value) ==
    Max(min_val, Min(max_val, target_value))

\* the values the page may report for a slider after a drag towards target
ReachableValues(s, target) ==
    LET one == Max(1, Abs(s.step))
    IN {v \in {s.value, target, target - one, target + one, s.min, s.max} :
          s.min <= v /\ v <= s.max}

\* ---- _set_slider_thumb_value, lines 50-121 ----
\* line 79: if step_size <= 0: step_size = 1
ThumbStep(step) == IF step <= 0 THEN 1 ELSE step

\* lines 82-85
ThumbTotalSteps(s) ==
    IF s.max = s.min
    THEN Float(0)
    ELSE TrueDiv(Float(s.max - s.min), Float(ThumbStep(s.step)))

\* line 88: the guard of the pixels-per-step division; line 91 warns otherwise
ThumbCanScale(s) == ThumbTotalSteps(s).n # 0 /\ s.width > 0

\* lines 87-91
ThumbPixelsPerStep(s) ==
    IF ThumbCanScale(s)
    THEN TrueDiv(Float(s.width), ThumbTotalSteps(s))
    ELSE Float(0)

\* line 93
ThumbStepsToMove(s, target) ==
    TrueDiv(Float(target - s.value), Float(ThumbStep(s.step)))

\* line 94, the argument of math.ceil
ThumbProduct(s, target) ==
    Mul(ThumbStepsToMove(s, target), ThumbPixelsPerStep(s))

\* line 94: x_drag_offset = int(math.ceil(steps_to_move * pixels_per_step))
ThumbOffsets(s, target) ==
    IF ThumbProduct(s, target).d = 0 THEN {0}
    ELSE MathCeil(ThumbProduct(s, target),
                  DoubleErrors(s.max - s.min, ThumbStep(s.step), s.width,
                               target - s.value))

ThumbFaults == {"none", "read", "drag", "reread"}

SetSliderThumbValue_NoShortCircuit(s, target_value, fault, off, achieved) ==
    LET target    == Clamp(s.min, s.max, target_value)
        step_size == ThumbStep(s.step)
        dragged   == off # 0
        seen      == IF dragged THEN achieved ELSE s.value
        base == [kind |-> "time", slider |-> s, target_value |-> target_value,
                 fault |-> fault, read |-> FALSE, target |-> 0,
                 step_size |-> s.step, computed |-> FALSE,
                 zero_div |-> FALSE, scale_warning |-> FALSE,
                 x_drag_offset |-> 0, drags |-> 0, reread |-> FALSE,
                 achieved |-> s.value, warned |-> FALSE, result |-> "False"]
        got  == [base EXCEPT !.read = TRUE, !.target = target]
        calc == [got EXCEPT !.step_size = step_size, !.computed = TRUE,
                            !.scale_warning = ~ThumbCanScale(s)]
    IN IF fault = "read" THEN base
       ELSE IF ThumbProduct(s, target).d = 0
       THEN [calc EXCEPT !.zero_div = TRUE]
       ELSE IF dragged /\ fault = "drag"
       THEN [calc EXCEPT !.x_drag_offset = off, !.drags = 1]
       ELSE [calc EXCEPT !.x_drag_offset = off,
                         !.drags = IF dragged THEN 1 ELSE 0,
                         !.reread = (fault # "reread"),
                         !.achieved = IF fault # "reread" THEN seen
                                      ELSE s.value,
                         !.warned = /\ fault # "reread"
                                    /\ Abs(seen - target) >= step_size
                                    /\ step_size > 0,
                         !.result = "True"]

\* lines 50-121.  fault names the step at which the session raises, off is
\* the offset line 94 computes, achieved the value the page reports after a
\* drag.  The record tells what the call did:
\*   read          the attributes, track and thumb were found (lines 54-66)
\*   target        the clamped target (line 72)
\*   computed      the offset computation of lines 79-94 ran
\*   zero_div      a division raised ZeroDivisionError
\*   scale_warning the warning of line 91 was printed
\*   drags         performs of drag_and_drop_by_offset (lines 96-99)
\*   reread        the value was read again (lines 104-107)
\*   warned        the warning of line 110 was printed
\*   result        the returned value (lines 77, 114, 118, 121)
SetSliderThumbValue(s, target_value, fault, off, achieved) ==
    LET target    == Clamp(s.min, s.max, target_value)
        step_size == ThumbStep(s.step)
        dragged   == off # 0
        seen      == IF dragged THEN achieved ELSE s.value
        base == [kind |-> "time", slider |-> s, target_value |-> target_value,
                 fault |-> fault, read |-> FALSE, target |-> 0,
                 step_size |-> s.step, computed |-> FALSE,
                 zero_div |-> FALSE, scale_warning |-> FALSE,
                 x_drag_offset |-> 0, drags |-> 0, reread |-> FALSE,
                 achieved |-> s.value, warned |-> FALSE, result |-> "False"]
        got  == [base EXCEPT !.read = TRUE, !.target = target]
        calc == [got EXCEPT !.step_size = step_size, !.computed = TRUE,
                            !.scale_warning = ~ThumbCanScale(s)]
    IN IF fault = "read" THEN base
       ELSE IF target = s.value THEN [got EXCEPT !.result = "True"]
       ELSE IF ThumbProduct(s, target).d = 0
       THEN [calc EXCEPT !.zero_div = TRUE]
       ELSE IF dragged /\ fault = "drag"
       THEN [calc EXCEPT !.x_drag_offset = off, !.drags = 1]
       ELSE [calc EXCEPT !.x_drag_offset = off,
                         !.drags = IF dragged THEN 1 ELSE 0,
                         !.reread = (fault # "reread"),
                         !.achieved = IF fault # "reread" THEN seen
                                      ELSE s.value,
                         !.warned = /\ fault # "reread"
                                    /\ Abs(seen - target) >= step_size
                                    /\ step_size > 0,
                         !.result = "True"]

\* ---- the price slider of find_flights_selenium, lines 379-455 ----
\* line 405: if step_size == 0: step_size = 1
PriceStep(step) == IF step = 0 THEN 1 ELSE step

\* line 406
PriceTotalSteps(s) ==
    TrueDiv(Float(s.max - s.min), Float(PriceStep(s.step)))

\* lines 407-410
PricePixelsPerStep(s) ==
    IF PriceTotalSteps(s).n = 0 /\ PriceTotalSteps(s).d # 0
    THEN Float(0)
    ELSE TrueDiv(Float(s.width), PriceTotalSteps(s))

\* line 412
PriceStepsToMove(s, target) ==
    TrueDiv(Float(target - s.value), Float(PriceStep(s.step)))

\* line 413, the argument of int()
PriceProduct(s, target) ==
    Mul(PriceStepsToMove(s, target), PricePixelsPerStep(s))

\* line 413: x_drag_offset = int(steps_to_move * pixels_per_step)
PriceOffsets(s, target) ==
    IF PriceProduct(s, target).d = 0 THEN {0}
    ELSE IntTrunc(PriceProduct(s, target),
                  DoubleErrors(s.max - s.min, PriceStep(s.step), s.width,
                               target - s.value))

PriceFaults == {"none", "read", "drag", "reread", "close"}

SetPriceSlider_RetryOnMiss(s, budget, fault, off, achieved) ==
    LET target  == Clamp(s.min, s.max, budget)
        skip    == target = s.value
        step_size == IF skip THEN s.step ELSE PriceStep(s.step)
        dragged == ~skip /\ off # 0
        seen    == IF dragged THEN achieved ELSE s.value
        missed  == fault # "reread" /\ Abs(seen - target) > step_size
        base == [kind |-> "price", slider |-> s, target_value |-> budget,
                 fault |-> fault, read |-> FALSE, target |-> 0,
                 step_size |-> s.step, computed |-> FALSE,
                 zero_div |-> FALSE, scale_warning |-> FALSE,
                 x_drag_offset |-> 0, drags |-> 0, reread |-> FALSE,
                 achieved |-> s.value, warned |-> FALSE, result |-> "raised"]
        got  == [base EXCEPT !.read = TRUE, !.target = target,
                             !.step_size = step_size, !.computed = ~skip]
    IN IF fault = "read" THEN base
       ELSE IF ~skip /\ PriceProduct(s, target).d = 0
       THEN [got EXCEPT !.zero_div = TRUE]
       ELSE IF dragged /\ fault = "drag"
       THEN [got EXCEPT !.x_drag_offset = off, !.drags = 1]
       ELSE [got EXCEPT !.x_drag_offset = IF skip THEN 0 ELSE off,
                        !.drags = IF dragged
                                  THEN (IF missed THEN 2 ELSE 1) ELSE 0,
                        !.reread = (fault # "reread"),
                        !.achieved = IF fault # "reread" THEN seen
                                      ELSE s.value,
                        !.warned = missed,
                        !.result = IF fault = "close" THEN "raised" ELSE "ok"]

\* lines 379-455, with the fields of SetSliderThumbValue:
\*   read          lines 381-395
\*   target        target_value_for_slider (line 400)
\*   computed      the else branch of lines 404-416 ran
\*   drags         performs of drag_and_drop_by_offset (lines 418-421)
\*   reread        lines 427-429, which run whether or not a drag was made
\*   warned        the warning of line 433 was printed
\*   result        "ok" when line 444 is reached, "raised" when a handler of
\*                 lines 448-455 is
\* step_size is replaced at line 405 only, so the check of line 432 uses the
\* declared step when the drag was skipped at line 402.
SetPriceSlider(s, budget, fault, off, achieved) ==
    LET target  == Clamp(s.min, s.max, budget)
        skip    == target = s.value
        step_size == IF skip THEN s.step ELSE PriceStep(s.step)
        dragged == ~skip /\ off # 0
        seen    == IF dragged THEN achieved ELSE s.value
        missed  == fault # "reread" /\ Abs(seen - target) > step_size
        base == [kind |-> "price", slider |-> s, target_value |-> budget,
                 fault |-> fault, read |-> FALSE, target |-> 0,
                 step_size |-> s.step, computed |-> FALSE,
                 zero_div |-> FALSE, scale_warning |-> FALSE,
                 x_drag_offset |-> 0, drags |-> 0, reread |-> FALSE,
                 achieved |-> s.value, warned |-> FALSE, result |-> "raised"]
        got  == [base EXCEPT !.read = TRUE, !.target = target,
                             !.step_size = step_size, !.computed = ~skip]
    IN IF fault = "read" THEN base
       ELSE IF ~skip /\ PriceProduct(s, target).d = 0
       THEN [got EXCEPT !.zero_div = TRUE]
       ELSE IF dragged /\ fault = "drag"
       THEN [got EXCEPT !.x_drag_offset = off, !.drags = 1]
       ELSE [got EXCEPT !.x_drag_offset = IF skip THEN 0 ELSE off,
                        !.drags = IF dragged THEN 1 ELSE 0,
                        !.reread = (fault # "reread"),
                        !.achieved = IF fault # "reread" THEN seen
                                      ELSE s.value,
                        !.warned = missed,
                        !.result = IF fault = "close" THEN "raised" ELSE "ok"]

\* ------------------------------------------------------------------------
\* src/flight_finder.py: the state of a search that has not started
\* ------------------------------------------------------------------------
SearchIdle ==
    /\ origin_airport_options = <<>>
    /\ destination_airports = <<>>
    /\ traveler_budget = None
    /\ preferred_times = None
    /\ spc = "idle"
    /\ driver = "unset"
    /\ search_success_status = "unset"
    /\ flight_results_summary = <<>>
    /\ exc = "None"
    /\ retval = <<"pending">>
    /\ slider_k = 0
    /\ slider_op = NoSliderOp
    /\ ui_log = <<>>
    /\ quit_count = 0
    /\ sessions_created = 0

\* ------------------------------------------------------------------------
\* Specification of the trip period generator
\* ------------------------------------------------------------------------
GenInit ==
    /\ weekend_dates \in BoundedSeq(DateStrings, MaxDates)
    /\ trip_length_options \in BoundedSeq(OptionTags, MaxOptions)
    /\ mpc = "parse_dates"
    /\ di = 1
    /\ parsed_weekend_dates = <<>>
    /\ ai = 0
    /\ oj = 0
    /\ all_trip_periods = <<>>
    /\ period_src = <<>>
    /\ SearchIdle
    /\ AuthIdle /\ SheetIdle /\ MainIdle

GenNext ==
    \/ ParseDate
    \/ ParseDone
    \/ GenPeriod
    \/ SkipUnknownOption
    \/ NextSatDate
    \/ GenDone

GenSpec == GenInit /\ [][GenNext]_vars

\* ------------------------------------------------------------------------
\* Properties of the trip period generator
\* ------------------------------------------------------------------------
\* The calendar, stated without ordinals: s names a day of the Gregorian
\* calendar, and the day after / before it.
IsCalendarDate(s) ==
    /\ s[1] \in 1..9999
    /\ s[2] \in 1..12
    /\ s[3] >= 1
    /\ s[3] <= (IF s[2] \in {1, 3, 5, 7, 8, 10, 12} THEN 31
                ELSE IF s[2] # 2 THEN 30
                ELSE IF s[1] % 400 = 0 \/ (s[1] % 4 = 0 /\ s[1] % 100 # 0)
                     THEN 29 ELSE 28)

DayAfter(s) ==
    IF IsCalendarDate(<<s[1], s[2], s[3] + 1>>) THEN <<s[1], s[2], s[3] + 1>>
    ELSE IF s[2] < 12 THEN <<s[1], s[2] + 1, 1>>
    ELSE <<s[1] + 1, 1, 1>>

DayBefore(s) ==
    IF s[3] > 1 THEN <<s[1], s[2], s[3] - 1>>
    ELSE IF s[2] > 1
         THEN CHOOSE t \in {<<s[1], s[2] - 1, d>> : d \in 28..31} :
                  IsCalendarDate(t) /\ DayAfter(t) = s
         ELSE <<s[1] - 1, 12, 31>>

DateBefore(s, t) ==
    \/ s[1] < t[1]
    \/ s[1] = t[1] /\ s[2] < t[2]
    \/ s[1] = t[1] /\ s[2] = t[2] /\ s[3] < t[3]

IsKnownTag(t) == t \in {"none", "friday_off", "monday_off"}

\* the anchors that parse and the options that are known, in input order
ValidAnchors == SelectSeq(weekend_dates, IsCalendarDate)
KnownTags == SelectSeq(trip_length_options, IsKnownTag)

LabelOfTag(t) ==
    CASE t = "none"       -> "Weekend (Fri-Sun)"
      [] t = "friday_off" -> "Friday Off (Thu-Sun)"
      [] t = "monday_off" -> "Monday Off (Fri-Mon)"

\* the anchor string and the option tag the k-th trip period was made from
AnchorOf(k) == ValidAnchors[period_src[k][1]]
OptionOf(k) == trip_length_options[period_src[k][2]]

\* C1: every generated trip period starts the day before its anchor D and ends
\* the day after it for "none", starts two days before and ends the day after
\* for "friday_off", starts the day before and ends two days after for
\* "monday_off", and its original_saturday is D.
C1_TripOffsets ==
    \A k \in 1..Len(all_trip_periods) :
        LET p == all_trip_periods[k]
            D == AnchorOf(k)
        IN  /\ p.original_saturday = D
            /\ strftime(p.start_date_obj) = p.start_date_str
            /\ strftime(p.end_date_obj) = p.end_date_str
            /\ OptionOf(k) = "none" =>
                 /\ p.start_date_str = DayBefore(D)
                 /\ p.end_date_str = DayAfter(D)
            /\ OptionOf(k) = "friday_off" =>
                 /\ p.start_date_str = DayBefore(DayBefore(D))
                 /\ p.end_date_str = DayAfter(D)
            /\ OptionOf(k) = "monday_off" =>
                 /\ p.start_date_str = DayBefore(D)
                 /\ p.end_date_str = DayAfter(DayAfter(D))

\* a "friday_off" period whose start lies across the leap day from its anchor
C1_Witness ==
    \E k \in 1..Len(all_trip_periods) :
        /\ OptionOf(k) = "friday_off"
        /\ all_trip_periods[k].original_saturday = <<2024, 3, 1>>
        /\ all_trip_periods[k].start_date_str = <<2024, 2, 28>>

\* C2: when generation has finished, the number of trip periods is (number of
\* date strings that parse) x (number of entries of trip_length_options that
\* are known), repetitions counted.
C2_CrossProductSize ==
    mpc = "gen_done" =>
        Len(all_trip_periods) = Len(ValidAnchors) * Len(KnownTags)

\* a finished run with a date string that does not parse, a repeated option
\* and an unknown option
C2_Witness ==
    /\ mpc = "gen_done"
    /\ Len(weekend_dates) = 2
    /\ Len(ValidAnchors) = 1
    /\ Len(trip_length_options) = 3
    /\ trip_length_options[1] = trip_length_options[2]
    /\ Len(KnownTags) = 2
    /\ Len(all_trip_periods) = 2

\* C3: an unknown option yields no trip period for any anchor, and every known
\* option, before or after it in the list, yields exactly one trip period for
\* every anchor.
C3_UnknownOptionSkipped ==
    mpc = "gen_done" =>
        \A i \in 1..Len(ValidAnchors) : \A j \in 1..Len(trip_length_options) :
            LET made == {k \in 1..Len(all_trip_periods) : period_src[k] = <<i, j>>}
            IN  IF IsKnownTag(trip_length_options[j])
                THEN /\ Cardinality(made) = 1
                     /\ \A k \in made :
                          /\ all_trip_periods[k].original_saturday = ValidAnchors[i]
                          /\ all_trip_periods[k].description[1] =
                               LabelOfTag(trip_length_options[j])
                ELSE made = {}

\* a finished run over two anchors with an unknown option between two known ones
C3_Witness ==
    /\ mpc = "gen_done"
    /\ Len(ValidAnchors) = 2
    /\ Len(trip_length_options) = 3
    /\ IsKnownTag(trip_length_options[1])
    /\ ~IsKnownTag(trip_length_options[2])
    /\ IsKnownTag(trip_length_options[3])
    /\ Len(all_trip_periods) = 4

\* C4: the trip periods are in input order, anchors outer and options inner:
\* period (i, j) precedes period (i', j') exactly when i < i' or (i = i' and
\* j < j'), and the finished list is the whole cross product, equal periods
\* included.
C4_InputOrder ==
    /\ \A p, q \in 1..Len(all_trip_periods) :
          (p < q) <=> \/ period_src[p][1] < period_src[q][1]
                      \/ /\ period_src[p][1] = period_src[q][1]
                         /\ period_src[p][2] < period_src[q][2]
    /\ mpc = "gen_done" =>
          [k \in 1..Len(all_trip_periods) |->
              <<all_trip_periods[k].original_saturday,
                all_trip_periods[k].description[1]>>]
          = [k \in 1..(Len(ValidAnchors) * Len(KnownTags)) |->
              <<ValidAnchors[((k - 1) \div Len(KnownTags)) + 1],
                LabelOfTag(KnownTags[((k - 1) % Len(KnownTags)) + 1])>>]

\* a finished run in which the same anchor occurs twice, so that equal trip
\* periods are generated and kept
C4_Witness ==
    /\ mpc = "gen_done"
    /\ Len(all_trip_periods) >= 4
    /\ all_trip_periods[1] = all_trip_periods[3]
    /\ all_trip_periods[1] # all_trip_periods[2]

\* C5: every generated trip period has start_date < anchor_date <= end_date,
\* the anchor being its original Saturday.
C5_AnchorInsidePeriod ==
    \A k \in 1..Len(all_trip_periods) :
        LET p == all_trip_periods[k]
        IN  /\ DateBefore(p.start_date_str, p.original_saturday)
            /\ ~DateBefore(p.end_date_str, p.original_saturday)
            /\ p.start_date_obj < strptime(p.original_saturday)
            /\ strptime(p.original_saturday) <= p.end_date_obj

\* a trip period whose start lies in the year before its anchor
C5_Witness ==
    \E k \in 1..Len(all_trip_periods) :
        /\ all_trip_periods[k].original_saturday = <<2025, 1, 1>>
        /\ all_trip_periods[k].start_date_str[1] = 2024
        /\ all_trip_periods[k].end_date_str[1] = 2025

\* ------------------------------------------------------------------------
\* main.py: placeholder state while one flight search is studied
\* ------------------------------------------------------------------------
GenIdle ==
    /\ weekend_dates = <<>>
    /\ trip_length_options = <<>>
    /\ mpc = "idle"
    /\ di = 0
    /\ parsed_weekend_dates = <<>>
    /\ ai = 0
    /\ oj = 0
    /\ all_trip_periods = <<>>
    /\ period_src = <<>>

\* ------------------------------------------------------------------------
\* src/flight_finder.py: find_flights_selenium
\* ------------------------------------------------------------------------
\* Inputs of one search.  An airport list may be empty or start with an
\* empty code; the budget and each preferred time may be absent; the
\* preferred_times key may be present with no value (None).
OriginOptionLists == {<<>>, <<"">>, <<"SFO">>}
DestinationLists == {<<>>, <<"LAS">>}
Budgets == {None, Some(300)}

TimeKeys == <<"outbound_departure_earliest", "outbound_departure_latest",
              "outbound_arrival_earliest", "outbound_arrival_latest">>

TimeKeySet == {TimeKeys[k] : k \in 1..Len(TimeKeys)}

\* a preferred_times dict in which exactly the keys of given are present
TimesDict(given) ==
    [key \in TimeKeySet |-> IF key \in given THEN Some(8) ELSE None]

PreferredTimesChoices ==
    {TimesDict({}),
     TimesDict({"outbound_departure_earliest"}),
     TimesDict({"outbound_departure_latest", "outbound_arrival_earliest"}),
     TimesDict(TimeKeySet)}

\* what a UI step can do: succeed, or raise one of the exception kinds the
\* handlers distinguish
Raised == {"TimeoutException", "NoSuchElementException", "Exception"}
Outcomes == {"ok"} \cup Raised

\* Python truthiness of an optional airport code
Truthy(x) == x # None /\ x[1] # ""

\* lst[0] if lst else None
FirstOrNone(lst) == IF Len(lst) > 0 THEN Some(lst[1]) ELSE None

origin_ap == FirstOrNone(origin_airport_options)
dest_ap == FirstOrNone(destination_airports)

\* mutant of MissingInputs: "and" where the code has "or"
MissingInputs_Both(o, d) == ~Truthy(o) /\ ~Truthy(d)

\* not origin_ap or not dest_ap
MissingInputs(o, d) == ~Truthy(o) \/ ~Truthy(d)

StatusRecord(status) == [status |-> status, message |-> <<"message of", status>>]

\* the history entry of a stage that acted on the session
Logged(stage, outcome) == <<stage, IF outcome = "ok" THEN "ok" ELSE "failed">>

\* lines 128-141: argument checks before any session exists
CheckInputs ==
    /\ spc = "start"
    /\ IF MissingInputs(origin_ap, dest_ap)
       THEN /\ retval' = <<"list", <<StatusRecord("ERROR_MISSING_INPUTS")>> >>
            /\ spc' = "returned"
       ELSE /\ retval' = retval
            /\ spc' = "get_webdriver"
    /\ UNCHANGED <<origin_airport_options, destination_airports, traveler_budget,
                   preferred_times, driver, search_success_status,
                   flight_results_summary, exc, slider_k, slider_op, ui_log,
                   quit_count,
                   sessions_created>>
    /\ UNCHANGED <<genVars, orchVars>>

\* mutant of GetWebdriver: the "if not driver" check is missing
GetWebdriver_Unchecked ==
    /\ spc = "get_webdriver"
    /\ \E created \in BOOLEAN :
          /\ driver' = IF created THEN "open" ELSE "None"
          /\ sessions_created' = IF created THEN sessions_created + 1
                                 ELSE sessions_created
    /\ search_success_status' = "ERROR_UNKNOWN_SELENIUM_ISSUE"
    /\ spc' = "navigate"
    /\ UNCHANGED <<origin_airport_options, destination_airports, traveler_budget,
                   preferred_times, flight_results_summary, exc, retval,
                   slider_k, slider_op, ui_log, quit_count>>
    /\ UNCHANGED <<genVars, orchVars>>

\* lines 143-149 with get_webdriver (lines 19-47): the session is created, or
\* get_webdriver catches the failure and returns None
GetWebdriver ==
    /\ spc = "get_webdriver"
    /\ \E created \in BOOLEAN :
          IF created
          THEN /\ driver' = "open"
               /\ sessions_created' = sessions_created + 1
               /\ search_success_status' = "ERROR_UNKNOWN_SELENIUM_ISSUE"
               /\ retval' = retval
               /\ spc' = "navigate"
          ELSE /\ driver' = "None"
               /\ sessions_created' = sessions_created
               /\ search_success_status' = search_success_status
               /\ retval' = <<"list", <<StatusRecord("ERROR_WEBDRIVER_INIT")>> >>
               /\ spc' = "returned"
    /\ UNCHANGED <<origin_airport_options, destination_airports, traveler_budget,
                   preferred_times, flight_results_summary, exc, slider_k,
                   slider_op,
                   ui_log, quit_count>>
    /\ UNCHANGED <<genVars, orchVars>>

\* what every stage leaves alone
StageFrame ==
    /\ UNCHANGED <<origin_airport_options, destination_airports, traveler_budget,
                   preferred_times, driver, flight_results_summary, retval,
                   quit_count, sessions_created>>
    /\ UNCHANGED <<genVars, orchVars>>

\* lines 151-154: driver.get; an exception goes to the top-level handlers
Navigate ==
    /\ spc = "navigate"
    /\ \E outcome \in Outcomes :
          /\ ui_log' = Append(ui_log, Logged("NAVIGATE", outcome))
          /\ IF outcome = "ok"
             THEN spc' = "consent" /\ exc' = exc
             ELSE spc' = "except" /\ exc' = outcome
    /\ UNCHANGED <<search_success_status, slider_k, slider_op>>
    /\ StageFrame

\* lines 156-179: the consent dialog; TimeoutException and every other
\* Exception are caught here and the search goes on
ConsentDialog ==
    /\ spc = "consent"
    /\ \E outcome \in Outcomes :
          ui_log' = Append(ui_log, Logged("CONSENT_DIALOG", outcome))
    /\ spc' = "fill_origin"
    /\ UNCHANGED <<search_success_status, exc, slider_k, slider_op>>
    /\ StageFrame

\* lines 181-213: type the origin and pick its suggestion; an exception goes
\* to the top-level handlers
FillOrigin ==
    /\ spc = "fill_origin"
    /\ \E outcome \in Outcomes :
          /\ ui_log' = Append(ui_log, Logged("FILL_ORIGIN", outcome))
          /\ IF outcome = "ok"
             THEN spc' = "fill_destination" /\ exc' = exc
             ELSE spc' = "except" /\ exc' = outcome
    /\ UNCHANGED <<search_success_status, slider_k, slider_op>>
    /\ StageFrame

\* lines 215-240: type the destination and pick its suggestion; an exception
\* goes to the top-level handlers
FillDestination ==
    /\ spc = "fill_destination"
    /\ \E outcome \in Outcomes :
          /\ ui_log' = Append(ui_log, Logged("FILL_DESTINATION", outcome))
          /\ IF outcome = "ok"
             THEN spc' = "fill_dates" /\ exc' = exc
             ELSE spc' = "except" /\ exc' = outcome
    /\ UNCHANGED <<search_success_status, slider_k, slider_op>>
    /\ StageFrame

\* mutant of FillDates: a failure while entering the dates goes to the
\* top-level handlers
FillDates_Fatal ==
    /\ spc = "fill_dates"
    /\ \E outcome \in Outcomes :
          /\ ui_log' = Append(ui_log, Logged("FILL_DATES", outcome))
          /\ IF outcome = "ok"
             THEN spc' = "submit" /\ exc' = exc
             ELSE spc' = "except" /\ exc' = outcome
    /\ UNCHANGED <<search_success_status, slider_k, slider_op>>
    /\ StageFrame

\* lines 242-285: enter the dates; TimeoutException and every other Exception
\* are caught here and the search goes on
FillDates ==
    /\ spc = "fill_dates"
    /\ \E outcome \in Outcomes :
          ui_log' = Append(ui_log, Logged("FILL_DATES", outcome))
    /\ spc' = "submit"
    /\ UNCHANGED <<search_success_status, exc, slider_k, slider_op>>
    /\ StageFrame

\* mutant of Submit: a failed click on Search is logged and the search waits
\* for the results all the same
Submit_Tolerant ==
    /\ spc = "submit"
    /\ \E outcome \in Outcomes :
          ui_log' = Append(ui_log, Logged("SUBMIT", outcome))
    /\ spc' = "wait_results"
    /\ UNCHANGED <<search_success_status, exc, slider_k, slider_op>>
    /\ StageFrame

\* lines 287-301: click Search; a TimeoutException is caught and re-raised,
\* any other exception propagates, all to the top-level handlers
Submit ==
    /\ spc = "submit"
    /\ \E outcome \in Outcomes :
          /\ ui_log' = Append(ui_log, Logged("SUBMIT", outcome))
          /\ IF outcome = "ok"
             THEN spc' = "wait_results" /\ exc' = exc
             ELSE spc' = "except" /\ exc' = outcome
    /\ UNCHANGED <<search_success_status, slider_k, slider_op>>
    /\ StageFrame

\* mutant of WaitResults: a failed wait for the results is logged and the
\* filters are applied all the same
WaitResults_Tolerant ==
    /\ spc = "wait_results"
    /\ \E outcome \in Outcomes :
          ui_log' = Append(ui_log, Logged("WAIT_RESULTS", outcome))
    /\ spc' = "stops"
    /\ UNCHANGED <<search_success_status, exc, slider_k, slider_op>>
    /\ StageFrame

\* lines 303-312: wait for a flight item; an exception goes to the top-level
\* handlers
WaitResults ==
    /\ spc = "wait_results"
    /\ \E outcome \in Outcomes :
          /\ ui_log' = Append(ui_log, Logged("WAIT_RESULTS", outcome))
          /\ IF outcome = "ok"
             THEN spc' = "stops" /\ exc' = exc
             ELSE spc' = "except" /\ exc' = outcome
    /\ UNCHANGED <<search_success_status, slider_k, slider_op>>
    /\ StageFrame

\* what a filter stage leaves alone
FilterFrame ==
    /\ UNCHANGED <<origin_airport_options, destination_airports, traveler_budget,
                   preferred_times, driver, flight_results_summary, exc, retval,
                   quit_count, sessions_created>>
    /\ UNCHANGED <<genVars, orchVars>>

\* lines 314-354 and their handlers at lines 559-566: the Stops filter.  The
\* try block opened here also encloses the price and times stages, so its
\* handlers lead past them to the append at line 570.
ApplyStopsFilter ==
    /\ spc = "stops"
    /\ \E outcome \in Outcomes :
          /\ ui_log' = Append(ui_log, Logged("APPLY_STOPS_FILTER", outcome))
          /\ CASE outcome = "ok" ->
                    /\ spc' = "price_open"
                    /\ search_success_status' = search_success_status
               [] outcome = "TimeoutException" ->
                    /\ spc' = "append"
                    /\ search_success_status' = "ERROR_FILTER_STOPS_TIMEOUT"
               [] OTHER ->
                    /\ spc' = "append"
                    /\ search_success_status' = "ERROR_FILTER_STOPS_GENERAL"
    /\ UNCHANGED <<slider_k, slider_op>>
    /\ FilterFrame

\* lines 356-374: open the Price filter, whatever the budget
OpenPriceFilter ==
    /\ spc = "price_open"
    /\ \E outcome \in Outcomes :
          /\ ui_log' = Append(ui_log, Logged("OPEN_PRICE_FILTER", outcome))
          /\ search_success_status' =
               CASE outcome = "ok" ->
                      "INFO_PRICE_FILTER_OPENED_PAUSED_FOR_INPUT_INSPECTION"
                 [] outcome = "TimeoutException" ->
                      "ERROR_FILTER_PRICE_OPEN_TIMEOUT"
                 [] OTHER -> "ERROR_FILTER_PRICE_OPEN_GENERAL"
    /\ spc' = "price_set"
    /\ UNCHANGED <<slider_k, slider_op>>
    /\ FilterFrame

\* the price sliders the results page may show
PagePriceSliders ==
    {ExampleSlider,
     [min |-> 0, max |-> 200, step |-> 50, value |-> 200, width |-> 500]}

\* lines 376-460: set the price slider when the traveler has a budget.  kind
\* is the exception the session raises when it raises one; a
\* ZeroDivisionError is caught by the general handler of line 452.
SetPrice ==
    /\ spc = "price_set"
    /\ IF traveler_budget # None
       THEN \E s \in PagePriceSliders, fault \in PriceFaults :
            \E kind \in IF fault \in {"none", "reread"}
                        THEN {"Exception"} ELSE Raised :
            \E off \in PriceOffsets(s, Clamp(s.min, s.max, traveler_budget[1])),
               achieved \in ReachableValues(s, Clamp(s.min, s.max,
                                                     traveler_budget[1])) :
               LET op == SetPriceSlider(s, traveler_budget[1], fault, off,
                                        achieved)
                   outcome == IF op.result = "ok" THEN "ok"
                              ELSE IF op.zero_div THEN "Exception" ELSE kind
               IN /\ slider_op' = op
                  /\ ui_log' = Append(ui_log, Logged("SET_PRICE", outcome))
                  /\ search_success_status' =
                       CASE outcome = "ok" ->
                              "INFO_PRICE_FILTER_APPLIED_PAUSED_FOR_TIMES_INSPECTION"
                         [] outcome = "TimeoutException" ->
                              "ERROR_FILTER_PRICE_SET_TIMEOUT"
                         [] OTHER -> "ERROR_FILTER_PRICE_SET_GENERAL"
       ELSE /\ ui_log' = ui_log
            /\ slider_op' = slider_op
            /\ search_success_status' =
                 "INFO_PRICE_FILTER_SKIPPED_PAUSED_FOR_TIMES_INSPECTION"
    /\ spc' = "times_open"
    /\ UNCHANGED slider_k
    /\ FilterFrame

\* lines 462-479: open the Times filter, whatever the preferred times
OpenTimesFilter ==
    /\ spc = "times_open"
    /\ \E outcome \in Outcomes :
          /\ ui_log' = Append(ui_log, Logged("OPEN_TIMES_FILTER", outcome))
          /\ search_success_status' =
               CASE outcome = "ok" ->
                      "INFO_TIMES_FILTER_OPENED_PAUSED_FOR_INPUT_INSPECTION"
                 [] outcome = "TimeoutException" ->
                      "ERROR_FILTER_TIMES_OPEN_TIMEOUT"
                 [] OTHER -> "ERROR_FILTER_TIMES_OPEN_GENERAL"
    /\ spc' = "times_dialog"
    /\ UNCHANGED <<slider_k, slider_op>>
    /\ FilterFrame

\* lines 485-499: read the preferred times and wait for the Times dialog.
\* preferred_times.get on None raises AttributeError outside the inner try,
\* which the handler of the Stops block at line 563 catches; a failed wait is
\* caught at line 554.
WaitTimesDialog ==
    /\ spc = "times_dialog"
    /\ IF preferred_times = None
       THEN /\ ui_log' = ui_log
            /\ search_success_status' = "ERROR_FILTER_STOPS_GENERAL"
            /\ spc' = "append"
            /\ slider_k' = slider_k
       ELSE \E outcome \in Outcomes :
               /\ ui_log' = Append(ui_log, Logged("WAIT_TIMES_DIALOG", outcome))
               /\ IF outcome = "ok"
                  THEN /\ spc' = "time_sliders"
                       /\ slider_k' = 1
                       /\ search_success_status' = search_success_status
                  ELSE /\ spc' = "append"
                       /\ slider_k' = slider_k
                       /\ search_success_status' = "ERROR_FILTER_TIMES_SETTING"
    /\ UNCHANGED slider_op
    /\ FilterFrame

\* the time sliders the Times dialog may show
PageTimeSliders ==
    {[min |-> 0, max |-> 24, step |-> 1, value |-> 0, width |-> 240]}

\* lines 508-540, one "if <time> is not None: _set_slider_thumb_value(...)":
\* the helper (lines 50-121) catches every exception and returns True or
\* False, and the caller ignores which
SetTimeSlider ==
    /\ spc = "time_sliders"
    /\ slider_k \in 1..Len(TimeKeys)
    /\ IF preferred_times[TimeKeys[slider_k]] # None
       THEN LET target_value == preferred_times[TimeKeys[slider_k]][1]
            IN \E s \in PageTimeSliders, fault \in ThumbFaults :
               \E off \in ThumbOffsets(s, Clamp(s.min, s.max, target_value)),
                  achieved \in ReachableValues(s, Clamp(s.min, s.max,
                                                        target_value)) :
                  LET op == SetSliderThumbValue(s, target_value, fault, off,
                                                achieved)
                  IN /\ slider_op' = op
                     /\ ui_log' = Append(ui_log,
                                         <<TimeKeys[slider_k],
                                           IF op.result = "True"
                                           THEN "ok" ELSE "failed">>)
       ELSE /\ ui_log' = ui_log
            /\ slider_op' = slider_op
    /\ slider_k' = slider_k + 1
    /\ spc' = IF slider_k = Len(TimeKeys) THEN "times_close" ELSE spc
    /\ UNCHANGED search_success_status
    /\ FilterFrame

\* lines 542-557: close the Times dialog
CloseTimesDialog ==
    /\ spc = "times_close"
    /\ \E outcome \in Outcomes :
          /\ ui_log' = Append(ui_log, Logged("CLOSE_TIMES_DIALOG", outcome))
          /\ search_success_status' =
               IF outcome = "ok" THEN "INFO_ALL_FILTERS_APPLIED"
               ELSE "ERROR_FILTER_TIMES_SETTING"
    /\ spc' = "append"
    /\ UNCHANGED <<slider_k, slider_op>>
    /\ FilterFrame

\* lines 568-577: append the status record and evaluate the return value;
\* the finally block runs before the caller gets it
AppendAndReturn ==
    /\ spc = "append"
    /\ flight_results_summary' =
         Append(flight_results_summary, StatusRecord(search_success_status))
    /\ retval' = <<"list", flight_results_summary'>>
    /\ spc' = "finally"
    /\ UNCHANGED <<origin_airport_options, destination_airports, traveler_budget,
                   preferred_times, driver, search_success_status, exc,
                   slider_k, slider_op, ui_log, quit_count, sessions_created>>
    /\ UNCHANGED <<genVars, orchVars>>

\* lines 582-599: the top-level handlers set the status and fall through
TopLevelStatus(e) ==
    CASE e = "TimeoutException"       -> "ERROR_TIMEOUT"
      [] e = "NoSuchElementException" -> "ERROR_NO_SUCH_ELEMENT"
      [] OTHER                        -> "ERROR_SELENIUM_GENERAL"

HandleException ==
    /\ spc = "except"
    /\ exc \in Raised
    /\ search_success_status' = TopLevelStatus(exc)
    /\ exc' = "None"
    /\ spc' = "finally"
    /\ UNCHANGED <<origin_airport_options, destination_airports, traveler_budget,
                   preferred_times, driver, flight_results_summary, retval,
                   slider_k, slider_op, ui_log, quit_count, sessions_created>>
    /\ UNCHANGED <<genVars, orchVars>>

\* mutant of Finally: the session is closed on the error paths only
Finally_QuitOnErrorOnly ==
    /\ spc = "finally"
    /\ IF driver = "open" /\ retval = <<"pending">>
       THEN driver' = "quit" /\ quit_count' = quit_count + 1
       ELSE driver' = driver /\ quit_count' = quit_count
    /\ retval' = IF retval = <<"pending">> THEN <<"None">> ELSE retval
    /\ spc' = "returned"
    /\ UNCHANGED <<origin_airport_options, destination_airports, traveler_budget,
                   preferred_times, search_success_status,
                   flight_results_summary, exc, slider_k, slider_op, ui_log,
                   sessions_created>>
    /\ UNCHANGED <<genVars, orchVars>>

\* lines 600-607: the finally block closes the session; after a handler the
\* function then runs off its end (the append and return at lines 605-606
\* are commented out) and so returns None
Finally ==
    /\ spc = "finally"
    /\ IF driver = "open"
       THEN driver' = "quit" /\ quit_count' = quit_count + 1
       ELSE driver' = driver /\ quit_count' = quit_count
    /\ retval' = IF retval = <<"pending">> THEN <<"None">> ELSE retval
    /\ spc' = "returned"
    /\ UNCHANGED <<origin_airport_options, destination_airports, traveler_budget,
                   preferred_times, search_success_status,
                   flight_results_summary, exc, slider_k, slider_op, ui_log,
                   sessions_created>>
    /\ UNCHANGED <<genVars, orchVars>>

\* ------------------------------------------------------------------------
\* Specification of one flight search
\* ------------------------------------------------------------------------
SearchInit ==
    /\ origin_airport_options \in OriginOptionLists
    /\ destination_airports \in DestinationLists
    /\ traveler_budget \in Budgets
    /\ preferred_times \in PreferredTimesChoices \cup {None}
    /\ spc = "start"
    /\ driver = "unset"
    /\ search_success_status = "unset"
    /\ flight_results_summary = <<>>
    /\ exc = "None"
    /\ retval = <<"pending">>
    /\ slider_k = 0
    /\ slider_op = NoSliderOp
    /\ ui_log = <<>>
    /\ quit_count = 0
    /\ sessions_created = 0
    /\ GenIdle
    /\ AuthIdle /\ SheetIdle /\ MainIdle

SearchNext ==
    \/ CheckInputs
    \/ GetWebdriver
    \/ Navigate
    \/ ConsentDialog
    \/ FillOrigin
    \/ FillDestination
    \/ FillDates
    \/ Submit
    \/ WaitResults
    \/ ApplyStopsFilter
    \/ OpenPriceFilter
    \/ SetPrice
    \/ OpenTimesFilter
    \/ WaitTimesDialog
    \/ SetTimeSlider
    \/ CloseTimesDialog
    \/ AppendAndReturn
    \/ HandleException
    \/ Finally

SearchSpec == SearchInit /\ [][SearchNext]_vars

\* ------------------------------------------------------------------------
\* Specification of one slider-setting operation, on any slider the page
\* may declare and for any target
\* ------------------------------------------------------------------------
SliderFrame ==
    /\ UNCHANGED <<origin_airport_options, destination_airports,
                   traveler_budget, preferred_times, driver,
                   search_success_status, flight_results_summary, exc, retval,
                   slider_k, ui_log, quit_count, sessions_created>>
    /\ UNCHANGED <<genVars, orchVars>>

\* a call of _set_slider_thumb_value (line 50), as made at lines 510-540
CallSetSliderThumbValue ==
    /\ spc = "slider_call"
    /\ \E s \in SliderSettings, target_value \in SliderTargets,
          fault \in ThumbFaults :
       \E off \in ThumbOffsets(s, Clamp(s.min, s.max, target_value)),
          achieved \in ReachableValues(s, Clamp(s.min, s.max, target_value)) :
          slider_op' = SetSliderThumbValue(s, target_value, fault, off,
                                           achieved)
    /\ spc' = "slider_return"
    /\ SliderFrame

\* one run of the price slider code, lines 379-455, for some budget
CallSetPriceSlider ==
    /\ spc = "slider_call"
    /\ \E s \in SliderSettings, budget \in SliderTargets,
          fault \in PriceFaults :
       \E off \in PriceOffsets(s, Clamp(s.min, s.max, budget)),
          achieved \in ReachableValues(s, Clamp(s.min, s.max, budget)) :
          slider_op' = SetPriceSlider(s, budget, fault, off, achieved)
    /\ spc' = "slider_return"
    /\ SliderFrame

SliderInit ==
    /\ origin_airport_options = <<>>
    /\ destination_airports = <<>>
    /\ traveler_budget = None
    /\ preferred_times = None
    /\ spc = "slider_call"
    /\ driver = "open"
    /\ search_success_status = "unset"
    /\ flight_results_summary = <<>>
    /\ exc = "None"
    /\ retval = <<"pending">>
    /\ slider_k = 0
    /\ slider_op = NoSliderOp
    /\ ui_log = <<>>
    /\ quit_count = 0
    /\ sessions_created = 1
    /\ GenIdle
    /\ AuthIdle /\ SheetIdle /\ MainIdle

SliderNext ==
    \/ CallSetSliderThumbValue
    \/ CallSetPriceSlider

SliderSpec == SliderInit /\ [][SliderNext]_vars

\* ------------------------------------------------------------------------
\* Properties of one flight search
\* ------------------------------------------------------------------------
Returned == spc = "returned"

\* the stages that have acted on the session so far, and those that failed
Entered(stage) == \E n \in 1..Len(ui_log) : ui_log[n][1] = stage
Failed(stage) == \E n \in 1..Len(ui_log) : ui_log[n] = <<stage, "failed">>

\* the value returned is a list of exactly one record, of this status
ReturnsOneRecord(status) ==
    /\ retval[1] = "list"
    /\ Len(retval[2]) = 1
    /\ retval[2][1].status = status

\* C6: once the session has been created it is closed exactly once before the
\* function returns, on every path; it is never closed more often than it
\* was created, and nothing acts on it after it was closed.
C6_SessionClosedOnce ==
    /\ sessions_created <= 1
    /\ quit_count <= sessions_created
    /\ Returned => quit_count = sessions_created
    /\ Returned /\ sessions_created = 1 => driver = "quit"
    /\ driver = "quit" => Returned

\* a search that timed out in a stage has returned with its session closed
C6_Witness ==
    /\ Returned
    /\ sessions_created = 1
    /\ quit_count = 1
    /\ search_success_status = "ERROR_TIMEOUT"

\* C6, second path: a search that completed normally has returned with its
\* session closed
C6_WitnessNormalReturn ==
    /\ Returned
    /\ sessions_created = 1
    /\ quit_count = 1
    /\ search_success_status = "INFO_ALL_FILTERS_APPLIED"

\* C7: when an exception was caught at the top level, the function returns
\* one record whose status is the code of that exception (ERROR_TIMEOUT,
\* ERROR_NO_SUCH_ELEMENT or ERROR_SELENIUM_GENERAL).
C7_TopLevelFailureReported ==
    Returned /\ search_success_status \in
                  {"ERROR_TIMEOUT", "ERROR_NO_SUCH_ELEMENT", "ERROR_SELENIUM_GENERAL"}
        => ReturnsOneRecord(search_success_status)

\* C8: with no origin airport or an empty destination list the function
\* returns exactly one record of status ERROR_MISSING_INPUTS, and at no point
\* creates a session or acts on the UI.
C8_MissingInputs ==
    origin_airport_options = <<>> \/ destination_airports = <<>> =>
        /\ sessions_created = 0
        /\ driver = "unset"
        /\ ui_log = <<>>
        /\ quit_count = 0
        /\ spc \in {"start", "returned"}
        /\ Returned => ReturnsOneRecord("ERROR_MISSING_INPUTS")

\* a search with an origin but no destination has returned
C8_Witness ==
    /\ Returned
    /\ origin_airport_options = <<"SFO">>
    /\ destination_airports = <<>>
    /\ retval = <<"list", <<StatusRecord("ERROR_MISSING_INPUTS")>> >>

\* C9: when creating the session fails the function returns exactly one
\* record of status ERROR_WEBDRIVER_INIT, without any UI action and without
\* closing a session.
C9_WebdriverInitFailure ==
    driver = "None" =>
        /\ Returned
        /\ ReturnsOneRecord("ERROR_WEBDRIVER_INIT")
        /\ ui_log = <<>>
        /\ quit_count = 0
        /\ sessions_created = 0

\* a search with both airports whose session could not be created has returned
C9_Witness ==
    /\ Returned
    /\ driver = "None"
    /\ ~MissingInputs(origin_ap, dest_ap)

\* The filter steps in pipeline order, and those of them this search is to
\* perform: the price is set only with a budget, a time slider only when its
\* bound is given.
FilterSteps ==
    <<"APPLY_STOPS_FILTER", "OPEN_PRICE_FILTER", "SET_PRICE", "OPEN_TIMES_FILTER",
      "outbound_departure_earliest", "outbound_departure_latest",
      "outbound_arrival_earliest", "outbound_arrival_latest">>

Applicable(step) ==
    CASE step = "SET_PRICE" -> traveler_budget # None
      [] step \in TimeKeySet ->
           preferred_times # None /\ preferred_times[step] # None
      [] OTHER -> TRUE

\* the filter steps that failed in this search; waiting for the Times dialog
\* and closing it belong to setting the times
FailedFilterSteps ==
    {ui_log[n][1] : n \in {m \in 1..Len(ui_log) :
        /\ ui_log[m][2] = "failed"
        /\ ui_log[m][1] \in {FilterSteps[k] : k \in 1..Len(FilterSteps)}
                            \cup {"WAIT_TIMES_DIALOG", "CLOSE_TIMES_DIALOG"}}}

\* every applicable filter step after the f-th was attempted
LaterStepsAttempted(f) ==
    \A g \in (f + 1)..Len(FilterSteps) :
        Applicable(FilterSteps[g]) => Entered(FilterSteps[g])

\* C10: a single filter step failing does not stop the pipeline: when exactly
\* one filter step failed, every later filter step was still attempted and
\* the search returns a status record.
C10_FilterFailureContinues ==
    Returned =>
        \A f \in 1..Len(FilterSteps) :
            FailedFilterSteps = {FilterSteps[f]} =>
                /\ LaterStepsAttempted(f)
                /\ retval[1] = "list"
                /\ Len(retval[2]) = 1

\* C10 without the Stops filter: holds of the code, which encloses the price
\* and times stages in the try block of the Stops filter
C10_AfterStopsSucceeded ==
    Returned =>
        \A f \in 2..Len(FilterSteps) :
            FailedFilterSteps = {FilterSteps[f]} =>
                /\ LaterStepsAttempted(f)
                /\ retval[1] = "list"
                /\ Len(retval[2]) = 1

\* a failed Stops filter still yields one status record
C10_StopsFailureReported ==
    Returned /\ Failed("APPLY_STOPS_FILTER") =>
        /\ retval[1] = "list"
        /\ Len(retval[2]) = 1
        /\ retval[2][1].status \in
             {"ERROR_FILTER_STOPS_TIMEOUT", "ERROR_FILTER_STOPS_GENERAL"}

\* the status of the record the search returned
ReturnedStatus == retval[2][1].status

FilterErrorStatuses ==
    {"ERROR_FILTER_STOPS_TIMEOUT", "ERROR_FILTER_STOPS_GENERAL",
     "ERROR_FILTER_PRICE_OPEN_TIMEOUT", "ERROR_FILTER_PRICE_OPEN_GENERAL",
     "ERROR_FILTER_PRICE_SET_TIMEOUT", "ERROR_FILTER_PRICE_SET_GENERAL",
     "ERROR_FILTER_TIMES_OPEN_TIMEOUT", "ERROR_FILTER_TIMES_OPEN_GENERAL",
     "ERROR_FILTER_TIMES_SETTING"}

\* C11: a failed filter step leaves its error status in the result: the
\* returned record has status INFO_ALL_FILTERS_APPLIED only if no filter step
\* failed in that search, and an ERROR_FILTER_* status if one did.
C11_FilterErrorStatusKept ==
    Returned /\ retval[1] = "list" /\ Entered("APPLY_STOPS_FILTER") =>
        /\ ReturnedStatus = "INFO_ALL_FILTERS_APPLIED" => FailedFilterSteps = {}
        /\ FailedFilterSteps # {} => ReturnedStatus \in FilterErrorStatuses

\* The stages of the search in their order, the stage each history entry
\* belongs to, and the entries in the order the code can make them.
StageOrder ==
    <<"NAVIGATE", "CONSENT_DIALOG", "FILL_ORIGIN", "FILL_DESTINATION",
      "FILL_DATES", "SUBMIT", "WAIT_RESULTS", "APPLY_STOPS_FILTER",
      "APPLY_PRICE_FILTER", "APPLY_TIMES_FILTER", "DONE">>

StageOfEntry(name) ==
    CASE name \in {"OPEN_PRICE_FILTER", "SET_PRICE"} -> "APPLY_PRICE_FILTER"
      [] name \in {"OPEN_TIMES_FILTER", "WAIT_TIMES_DIALOG", "CLOSE_TIMES_DIALOG"}
                  \cup TimeKeySet -> "APPLY_TIMES_FILTER"
      [] OTHER -> name

StageRank(stage) == CHOOSE r \in 1..Len(StageOrder) : StageOrder[r] = stage

EntryOrder ==
    <<"NAVIGATE", "CONSENT_DIALOG", "FILL_ORIGIN", "FILL_DESTINATION",
      "FILL_DATES", "SUBMIT", "WAIT_RESULTS", "APPLY_STOPS_FILTER",
      "OPEN_PRICE_FILTER", "SET_PRICE", "OPEN_TIMES_FILTER", "WAIT_TIMES_DIALOG",
      "outbound_departure_earliest", "outbound_departure_latest",
      "outbound_arrival_earliest", "outbound_arrival_latest",
      "CLOSE_TIMES_DIALOG">>

EntryRank(name) == CHOOSE r \in 1..Len(EntryOrder) : EntryOrder[r] = name

OptionalStages == {"CONSENT_DIALOG", "APPLY_PRICE_FILTER", "APPLY_TIMES_FILTER"}

FilterStages == {"APPLY_STOPS_FILTER", "APPLY_PRICE_FILTER", "APPLY_TIMES_FILTER"}

\* the search has reached DONE: the status record was appended (line 570)
DoneEntered == flight_results_summary # <<>>

\* every stage before rank r that is not optional was entered within the
\* first n history entries
EarlierStagesEntered(r, n) ==
    \A q \in 1..(r - 1) :
        StageOrder[q] \notin OptionalStages =>
            \E m \in 1..n : StageOfEntry(ui_log[m][1]) = StageOrder[q]

StagesInOrder ==
    /\ \A m, n \in 1..Len(ui_log) :
          m < n => EntryRank(ui_log[m][1]) < EntryRank(ui_log[n][1])
    /\ \A n \in 1..Len(ui_log) :
          /\ EarlierStagesEntered(StageRank(StageOfEntry(ui_log[n][1])), n - 1)
          /\ StageOfEntry(ui_log[n][1]) \in FilterStages =>
                \E m \in 1..(n - 1) : ui_log[m] = <<"WAIT_RESULTS", "ok">>
    /\ DoneEntered =>
          /\ EarlierStagesEntered(Len(StageOrder), Len(ui_log))
          /\ Len(flight_results_summary) = 1

\* C12: the stages are entered only in the order NAVIGATE .. DONE: none
\* before every earlier non-optional stage, none twice, no filter stage unless
\* WAIT_RESULTS found the results, and nothing after DONE.
C12_StageOrder ==
    /\ [](StagesInOrder)
    /\ [][DoneEntered => ui_log' = ui_log /\ DoneEntered']_vars

\* a search that went through every stage up to DONE
C12_Witness ==
    /\ Returned
    /\ DoneEntered
    /\ \A r \in 1..(Len(StageOrder) - 1) :
          \E n \in 1..Len(ui_log) : StageOfEntry(ui_log[n][1]) = StageOrder[r]

\* C19: with no budget the search performs no price-filter UI action: the
\* price dialog is not opened and the price slider is neither read nor
\* dragged; with a budget the price stage is executed.
C19_PriceStageOnlyWithBudget ==
    /\ traveler_budget = None =>
          /\ ~Entered("OPEN_PRICE_FILTER")
          /\ ~Entered("SET_PRICE")
    /\ traveler_budget # None /\ DoneEntered /\ <<"APPLY_STOPS_FILTER", "ok">> \in
          {ui_log[n] : n \in 1..Len(ui_log)} =>
          /\ Entered("OPEN_PRICE_FILTER")
          /\ Entered("SET_PRICE")

\* what holds of the code for C19: without a budget the price slider is not
\* touched, but the price dialog is opened all the same
C19_PriceSliderOnlyWithBudget ==
    traveler_budget = None => ~Entered("SET_PRICE")

\* the traveler gave no preferred time
NoPreferredTimes ==
    preferred_times = None \/ \A key \in TimeKeySet : preferred_times[key] = None

\* C20: with no preferred times the search performs no times-filter UI
\* action, and with preferred times only the sliders whose bound is given
\* are set.
C20_TimesStageOnlyWithTimes ==
    /\ NoPreferredTimes =>
          \A n \in 1..Len(ui_log) :
              StageOfEntry(ui_log[n][1]) # "APPLY_TIMES_FILTER"
    /\ \A key \in TimeKeySet :
          Entered(key) => preferred_times # None /\ preferred_times[key] # None

\* what holds of the code for C20: only the sliders whose bound is given are
\* set
C20_OnlyGivenSlidersSet ==
    \A key \in TimeKeySet :
        Entered(key) => preferred_times # None /\ preferred_times[key] # None

\* ------------------------------------------------------------------------
\* Properties of the slider-setting operations
\* ------------------------------------------------------------------------
SliderOpDone == slider_op.kind # "none"

\* a slider operation that got as far as reading the slider's attributes
SliderRead == SliderOpDone /\ slider_op.read

NoStepRepeated ==
    \A i, j \in 1..Len(ui_log) : i # j => ui_log[i][1] # ui_log[j][1]

\* C13: nothing is retried inside a search: no stage and no slider-setting
\* operation is recorded twice in the history of one call, whatever failed
\* before, and every slider-setting operation performs at most one drag, also
\* when the value it achieved misses the target
C13_NoRetry ==
    /\ NoStepRepeated
    /\ SliderOpDone => slider_op.drags <= 1

\* a search in which a wait failed earlier and the price drag missed its
\* target by more than a step: one drag, a warning, and the search went on
C13_Witness ==
    /\ Failed("CONSENT_DIALOG")
    /\ SliderOpDone
    /\ slider_op.kind = "price"
    /\ slider_op.warned
    /\ slider_op.drags = 1
    /\ Returned

\* the same for a time slider
C13_WitnessTimeSlider ==
    /\ SliderOpDone
    /\ slider_op.kind = "time"
    /\ slider_op.warned
    /\ slider_op.drags = 1
    /\ Returned

\* ceil(((target - current) / step) x (track_width / ((max - min) / step)))
\* in exact arithmetic, for step > 0 and min < max: the step cancels
ClaimedOffset(s, target) ==
    -((-((target - s.value) * s.width * s.step))
        \div (s.step * (s.max - s.min)))

\* C14: for the price slider and the time sliders alike, when the clamped
\* target differs from the current value the drag offset is
\* ceil(((target - current) / step) x (track_width / ((max - min) / step)));
\* for min 0, max 1000, step 50, current 0, track width 500 and target 300
\* it is 150
C14_OffsetIsCeiling ==
    /\ (/\ SliderRead
        /\ slider_op.computed
        /\ slider_op.slider.step > 0
        /\ slider_op.slider.min < slider_op.slider.max)
       => slider_op.x_drag_offset =
            ClaimedOffset(slider_op.slider, slider_op.target)
    /\ (/\ SliderRead
        /\ slider_op.computed
        /\ slider_op.slider = ExampleSlider
        /\ slider_op.target = 300)
       => slider_op.x_drag_offset = 150

\* the example of the claim alone: both slider codes compute 150 for it
C14_ExampleOffset ==
    (/\ SliderRead
     /\ slider_op.computed
     /\ slider_op.slider = ExampleSlider
     /\ slider_op.target = 300)
    => slider_op.x_drag_offset = 150

\* the time-slider helper rounds up: its offset is the claimed one, except
\* where the double product is rounded away from the exact integer
C14_HelperOffsetIsCeiling ==
    (/\ SliderRead
     /\ slider_op.kind = "time"
     /\ slider_op.computed
     /\ slider_op.slider.step > 0
     /\ slider_op.slider.min < slider_op.slider.max
     /\ <<slider_op.slider.max - slider_op.slider.min, slider_op.slider.step,
          slider_op.slider.width,
          Abs(slider_op.target - slider_op.slider.value)>> \notin RoundedAway)
    => slider_op.x_drag_offset =
         ClaimedOffset(slider_op.slider, slider_op.target)

\* the price slider truncates: on a 333 pixel track the move from 0 to 300
\* of 1000 is dragged by 99 pixels where the claimed offset is 100
C14_PriceTruncates ==
    /\ SliderRead
    /\ slider_op.kind = "price"
    /\ slider_op.slider = OddWidthSlider
    /\ slider_op.target = 300
    /\ slider_op.x_drag_offset = 99
    /\ ClaimedOffset(slider_op.slider, slider_op.target) = 100

\* C15: when the clamped target of a slider equals its current value the
\* offset computation is skipped and no drag is performed, for the time
\* sliders and the price slider
C15_EqualTargetNoDrag ==
    (SliderRead /\ slider_op.target = slider_op.slider.value)
    => /\ ~slider_op.computed
       /\ slider_op.drags = 0
       /\ slider_op.x_drag_offset = 0
       /\ ~slider_op.zero_div

\* a time slider asked for a value above its maximum while standing at the
\* maximum: the clamped target equals the current value and the call
\* returns True without a drag
C15_Witness ==
    /\ SliderRead
    /\ slider_op.kind = "time"
    /\ slider_op.target_value > slider_op.slider.max
    /\ slider_op.slider.value = slider_op.slider.max
    /\ slider_op.slider.min < slider_op.slider.max
    /\ slider_op.slider.width > 0
    /\ slider_op.drags = 0
    /\ slider_op.result = "True"

\* the price slider already standing at the budget
C15_WitnessPrice ==
    /\ SliderRead
    /\ slider_op.kind = "price"
    /\ slider_op.target_value = slider_op.slider.value
    /\ slider_op.slider.min < slider_op.slider.max
    /\ slider_op.slider.width > 0
    /\ slider_op.drags = 0
    /\ slider_op.result = "ok"

\* C16: a target outside [min, max] is clamped before the offset is
\* computed: below min it is treated as min, above max as max, and the value
\* used for the equality short-circuit, the offset and the tolerance check
\* lies in [min, max]
C16_TargetClamped ==
    SliderRead =>
      /\ slider_op.slider.min <= slider_op.target
      /\ slider_op.target <= slider_op.slider.max
      /\ slider_op.target_value < slider_op.slider.min
           => slider_op.target = slider_op.slider.min
      /\ slider_op.target_value > slider_op.slider.max
           => slider_op.target = slider_op.slider.max
      /\ (/\ slider_op.slider.min <= slider_op.target_value
          /\ slider_op.target_value <= slider_op.slider.max)
           => slider_op.target = slider_op.target_value
      /\ slider_op.computed <=> slider_op.target # slider_op.slider.value
      /\ slider_op.warned =>
           Abs(slider_op.achieved - slider_op.target) >= slider_op.step_size

\* a target above the maximum of a slider standing below it: the slider is
\* dragged towards the maximum, by the offset of the move to the maximum
C16_Witness ==
    /\ SliderRead
    /\ slider_op.target_value > slider_op.slider.max
    /\ slider_op.slider.value < slider_op.slider.max
    /\ slider_op.target = slider_op.slider.max
    /\ slider_op.drags = 1
    /\ slider_op.x_drag_offset > 0
    /\ slider_op.reread

\* a target below the minimum
C16_WitnessBelow ==
    /\ SliderRead
    /\ slider_op.target_value < slider_op.slider.min
    /\ slider_op.slider.value > slider_op.slider.min
    /\ slider_op.target = slider_op.slider.min
    /\ slider_op.drags = 1
    /\ slider_op.x_drag_offset < 0

DegenerateSlider ==
    slider_op.slider.step <= 0 \/ slider_op.slider.min = slider_op.slider.max

\* C17: when a slider declares step <= 0 or min = max, setting it is a
\* no-op: no division by zero occurs and no drag is performed, for the time
\* sliders and the price slider (the warning the claim adds is left out
\* here: C17_NoRangeLeftAlone shows a no-op without one)
C17_DegenerateSliderIsNoOp ==
    (SliderRead /\ DegenerateSlider) =>
      /\ ~slider_op.zero_div
      /\ slider_op.drags = 0

\* what does hold of such a slider: no division by zero occurs.  With
\* min = max the clamped target is the current value, so the offset is not
\* computed and nothing is dragged; the only warning then is that of the
\* price check of line 432 against a negative step.  With step <= 0 and
\* min < max the operation goes on with a substitute step: 1 in the
\* time-slider helper; in the price code 1 for step 0 and the negative step
\* itself otherwise.
C17_NoDivisionByZero ==
    (SliderRead /\ DegenerateSlider) =>
      /\ ~slider_op.zero_div
      /\ slider_op.slider.min = slider_op.slider.max =>
           /\ ~slider_op.computed
           /\ slider_op.drags = 0
           /\ ~slider_op.scale_warning
           /\ slider_op.warned =>
                slider_op.kind = "price" /\ slider_op.slider.step < 0
      /\ (slider_op.computed /\ slider_op.kind = "time") =>
           slider_op.step_size = 1
      /\ (slider_op.computed /\ slider_op.kind = "price") =>
           slider_op.step_size =
             IF slider_op.slider.step = 0 THEN 1 ELSE slider_op.slider.step

\* a time slider declaring step 0 is dragged all the same
C17_TimeSliderStepZeroDragged ==
    /\ SliderRead
    /\ slider_op.kind = "time"
    /\ slider_op.slider.step = 0
    /\ slider_op.slider.min < slider_op.slider.max
    /\ slider_op.drags = 1
    /\ ~slider_op.scale_warning
    /\ slider_op.result = "True"

\* a price slider declaring a negative step is dragged all the same
C17_PriceNegativeStepDragged ==
    /\ SliderRead
    /\ slider_op.kind = "price"
    /\ slider_op.slider.step < 0
    /\ slider_op.drags = 1
    /\ slider_op.result = "ok"

\* a slider with min = max is left alone, without a warning
C17_NoRangeLeftAlone ==
    /\ SliderRead
    /\ slider_op.slider.min = slider_op.slider.max
    /\ slider_op.target_value # slider_op.slider.value
    /\ slider_op.drags = 0
    /\ slider_op.result \in {"True", "ok"}

\* C18: after a slider is set its value is read again and a warning is
\* printed exactly when |achieved - target| >= one step, for the time sliders
\* and the price slider, and the warning does not change the result
C18_WarningIffOffByStep ==
    (SliderRead /\ slider_op.reread /\ slider_op.slider.step > 0) =>
      /\ slider_op.warned <=>
           Abs(slider_op.achieved - slider_op.target) >= slider_op.slider.step
      /\ (slider_op.warned /\ slider_op.fault # "close") =>
           slider_op.result \in {"True", "ok"}

\* the time-slider helper does warn exactly then
C18_HelperWarningIffOffByStep ==
    (/\ SliderRead
     /\ slider_op.kind = "time"
     /\ slider_op.reread
     /\ slider_op.slider.step > 0) =>
      /\ slider_op.warned <=>
           Abs(slider_op.achieved - slider_op.target) >= slider_op.slider.step
      /\ slider_op.result = "True"

\* the price slider moved to one step beside the target, and no warning
C18_PriceOffByOneStepNotWarned ==
    /\ SliderRead
    /\ slider_op.kind = "price"
    /\ slider_op.reread
    /\ slider_op.drags = 1
    /\ slider_op.slider.step > 0
    /\ Abs(slider_op.achieved - slider_op.target) = slider_op.slider.step
    /\ ~slider_op.warned

\* ------------------------------------------------------------------------
\* Properties of the fatal and the tolerated stages of a search
\* ------------------------------------------------------------------------
FatalWaitStages == {"FILL_ORIGIN", "FILL_DESTINATION", "SUBMIT", "WAIT_RESULTS"}

FatalFailure == \E stage \in FatalWaitStages : Failed(stage)

\* the failed stage is the last one that acted on the session
FailedStageIsLast ==
    /\ ui_log[Len(ui_log)][2] = "failed"
    /\ ui_log[Len(ui_log)][1] \in FatalWaitStages
    /\ \A k \in 1..Len(FilterSteps) : ~Entered(FilterSteps[k])

\* C22: when a wait fails in FILL_ORIGIN, FILL_DESTINATION, SUBMIT or
\* WAIT_RESULTS forward progress is aborted: no later stage, and no filter
\* stage, acts on the session in that search; the only thing that then
\* happens to the session is its being closed, and it is closed when the
\* search returns
C22_FatalFailureAborts ==
    /\ [](FatalFailure =>
            /\ FailedStageIsLast
            /\ spc \in {"except", "finally", "returned"}
            /\ driver \in {"open", "quit"}
            /\ Returned => driver = "quit" /\ quit_count = 1)
    /\ [][FatalFailure =>
            /\ ui_log' = ui_log
            /\ driver' # driver => driver = "open" /\ driver' = "quit"]_vars

\* the click on Search timed out: status ERROR_TIMEOUT, session closed
C22_Witness ==
    /\ Failed("SUBMIT")
    /\ search_success_status = "ERROR_TIMEOUT"
    /\ driver = "quit"
    /\ Returned

\* the position of the search right after a tolerated stage
NextAfter(stage) ==
    IF stage = "CONSENT_DIALOG" THEN <<"FILL_ORIGIN", "fill_origin">>
    ELSE <<"SUBMIT", "submit">>

\* a failure of the tolerated stage is followed by the next stage
ToleratedFailureGoesOn(stage) ==
    \A n \in 1..Len(ui_log) :
        ui_log[n] = <<stage, "failed">> =>
          IF n < Len(ui_log)
          THEN ui_log[n + 1][1] = NextAfter(stage)[1]
          ELSE spc = NextAfter(stage)[2] /\ exc = "None"

\* a step taken at a tolerated stage leaves the status alone
ToleratedStageKeepsStatus ==
    spc \in {"consent", "fill_dates"} =>
        search_success_status' = search_success_status

\* C23: a timeout or other error in the consent dialog or while entering
\* the dates is not fatal: the search goes on with FILL_ORIGIN after the
\* consent dialog and with SUBMIT after the dates, and entering the dates,
\* failed or not, leaves the status as it was, so the final status does not
\* tell that the dates were not entered
C23_ConsentAndDatesTolerated ==
    /\ [](ToleratedFailureGoesOn("CONSENT_DIALOG"))
    /\ [](ToleratedFailureGoesOn("FILL_DATES"))
    /\ [][ToleratedStageKeepsStatus]_vars

\* a search in which both stages failed and which still applied every filter
C23_Witness ==
    /\ Failed("CONSENT_DIALOG")
    /\ Failed("FILL_DATES")
    /\ Returned
    /\ retval[1] = "list"
    /\ ReturnedStatus = "INFO_ALL_FILTERS_APPLIED"

\* ------------------------------------------------------------------------
\* The sign and the size of the drag offset
\* ------------------------------------------------------------------------
\* a time-slider operation that computed an offset for a slider with a range
\* and a track, towards a target other than the current value
HelperMoveAsked ==
    /\ SliderRead
    /\ slider_op.kind = "time"
    /\ slider_op.computed
    /\ slider_op.target # slider_op.slider.value
    /\ slider_op.slider.width > 0
    /\ slider_op.slider.min < slider_op.slider.max

Sign(i) == IF i > 0 THEN 1 ELSE IF i < 0 THEN -1 ELSE 0

\* C28: in _set_slider_thumb_value, whenever the clamped target differs from
\* the current value, the track width is positive and min < max, the drag
\* offset is non-zero and has the sign of (target - current), so that a drag
\* is performed
C28_CeilEnsuresMovement ==
    HelperMoveAsked =>
      /\ slider_op.x_drag_offset # 0
      /\ Sign(slider_op.x_drag_offset) =
           Sign(slider_op.target - slider_op.slider.value)
      /\ slider_op.drags = 1

\* what does hold: a move to the right is always dragged to the right, and a
\* move to the left is never dragged to the right
C28_RightwardMovesDragged ==
    HelperMoveAsked =>
      IF slider_op.target > slider_op.slider.value
      THEN slider_op.x_drag_offset > 0 /\ slider_op.drags = 1
      ELSE slider_op.x_drag_offset <= 0

\* a move to the left by less than a pixel is rounded up to no drag at all
C28_SmallLeftwardMoveNotDragged ==
    /\ HelperMoveAsked
    /\ slider_op.fault = "none"
    /\ slider_op.target < slider_op.slider.value
    /\ slider_op.x_drag_offset = 0
    /\ slider_op.drags = 0
    /\ slider_op.result = "True"

\* the offset of a slider operation computed without the step size: the
\* exact D * W / R, rounded up by the helper and towards zero by the price
\* slider code
StepFreeOffset(kind, s, target) ==
    LET x == Rounded((target - s.value) * s.width, s.max - s.min, TRUE)
    IN IF kind = "time" THEN Ceil(x)
       ELSE IF x.n >= 0 THEN Floor(x) ELSE Ceil(x)

OffsetComputed ==
    /\ SliderRead
    /\ slider_op.computed
    /\ slider_op.slider.min < slider_op.slider.max
    /\ slider_op.slider.width > 0

\* C29: for a slider whose current value lies in [min, max] with min < max
\* and a positive track width, the drag offset computed for any target is at
\* most the track width in absolute value and does not depend on the
\* declared step size
C29_OffsetWithinTrackAnyStep ==
    OffsetComputed =>
      /\ Abs(slider_op.x_drag_offset) <= slider_op.slider.width
      /\ slider_op.x_drag_offset =
           StepFreeOffset(slider_op.kind, slider_op.slider, slider_op.target)

\* what does hold: the offset overshoots the track, and differs from the
\* offset of the same move with another step, by at most one pixel
C29_OffsetWithinOnePixel ==
    OffsetComputed =>
      /\ Abs(slider_op.x_drag_offset) <= slider_op.slider.width + 1
      /\ Abs(slider_op.x_drag_offset -
               StepFreeOffset(slider_op.kind, slider_op.slider,
                              slider_op.target)) <= 1

\* with step 5 the helper drags the thumb of a 7 pixel track by 8 pixels
C29_HelperOvershootsTrack ==
    /\ OffsetComputed
    /\ slider_op.kind = "time"
    /\ slider_op.slider = RoundingSlider
    /\ slider_op.target = 3
    /\ slider_op.x_drag_offset = 8

\* with step 1 the same move is dragged by 7 pixels
C29_SameMoveOtherStep ==
    /\ OffsetComputed
    /\ slider_op.kind = "time"
    /\ slider_op.slider = [RoundingSlider EXCEPT !.step = 1]
    /\ slider_op.target = 3
    /\ slider_op.x_drag_offset = 7

\* ------------------------------------------------------------------------
\* src/sheets_manager.py: get_authenticated_service
\* ------------------------------------------------------------------------
MaxAuthDepth == 3

\* what the code looks at in a credentials object: creds.valid, creds.expired
\* and whether creds.refresh_token is set; valid credentials are not expired
CredsValues ==
    {c \in [valid : BOOLEAN, expired : BOOLEAN, refresh_token : BOOLEAN] :
        c.valid => ~c.expired}

\* not creds or not creds.valid
NoValidCreds(c) == c = None \/ ~c[1].valid

\* lines 20-28: the token file, if there is one, is loaded; a file that
\* cannot be loaded leaves creds at None
AuthLoadToken ==
    /\ auth_pc = "start"
    /\ IF token_file
       THEN /\ creds' \in {None} \cup {Some(c) : c \in CredsValues}
            /\ auth_log' = Append(auth_log, "load_token")
       ELSE /\ creds' = None
            /\ auth_log' = auth_log
    /\ auth_pc' = "check_creds"
    /\ UNCHANGED <<token_file, credentials_file, auth_depth, auth_result>>
    /\ UNCHANGED <<genVars, searchVars, sheetVars, mainVars>>

\* lines 31-44: expired credentials with a refresh token are refreshed; a
\* failed refresh sets creds to None
AuthRefresh ==
    /\ auth_pc = "check_creds"
    /\ IF NoValidCreds(creds)
       THEN /\ IF creds # None /\ creds[1].expired /\ creds[1].refresh_token
               THEN /\ \E outcome \in {"ok", "RefreshError", "Exception"},
                          valid_now \in BOOLEAN :
                          /\ creds' = IF outcome = "ok"
                                      THEN Some([creds[1] EXCEPT
                                                   !.valid = valid_now,
                                                   !.expired = ~valid_now])
                                      ELSE None
                          /\ auth_log' =
                               IF outcome = "ok"
                               THEN Append(auth_log, "refresh")
                               ELSE auth_log \o <<"refresh", outcome>>
               ELSE /\ creds' = creds
                    /\ auth_log' = auth_log
            /\ auth_pc' = "recheck"
       ELSE /\ creds' = creds
            /\ auth_log' = auth_log
            /\ auth_pc' = "build_client"
    /\ UNCHANGED <<token_file, credentials_file, auth_depth, auth_result>>
    /\ UNCHANGED <<genVars, searchVars, sheetVars, mainVars>>

\* lines 46-70: without valid credentials the authorization flow is run if
\* the credentials file exists; the flow saves a new token file; whatever
\* happens the function returns here
AuthFlow ==
    /\ auth_pc = "recheck"
    /\ IF NoValidCreds(creds)
       THEN /\ IF credentials_file
               THEN /\ \E authorized \in BOOLEAN :
                          /\ auth_result' = IF authorized THEN <<"client">>
                                            ELSE <<"None">>
                          /\ token_file' = (authorized \/ token_file)
                    /\ auth_log' = Append(auth_log, "oauth_flow")
               ELSE /\ auth_result' = <<"None">>
                    /\ token_file' = token_file
                    /\ auth_log' = auth_log
            /\ auth_pc' = "returned"
       ELSE /\ auth_pc' = "build_client"
            /\ UNCHANGED <<auth_result, token_file, auth_log>>
    /\ UNCHANGED <<creds, credentials_file, auth_depth>>
    /\ UNCHANGED <<genVars, searchVars, sheetVars, mainVars>>

\* lines 74-82: a client is built from the credentials (line 75) and tried
\* out by listing the spreadsheets (line 77); either call can raise
AuthBuildClient ==
    /\ auth_pc = "build_client"
    /\ \E outcome \in {"ok", "client_raised", "listing_raised"} :
          /\ IF outcome = "ok"
             THEN auth_result' = <<"client">> /\ auth_pc' = "returned"
             ELSE auth_result' = auth_result /\ auth_pc' = "reauthenticate"
          /\ auth_log' =
               IF outcome = "client_raised"
               THEN Append(auth_log, "build_client")
               ELSE auth_log \o <<"build_client", "list_spreadsheet_files">>
    /\ UNCHANGED <<creds, token_file, credentials_file, auth_depth>>
    /\ UNCHANGED <<genVars, searchVars, sheetVars, mainVars>>

\* mutant of AuthReauthenticate: the token file is left in place
AuthReauthenticate_KeepToken ==
    /\ auth_pc = "reauthenticate"
    /\ auth_depth < MaxAuthDepth
    /\ auth_depth' = auth_depth + 1
    /\ creds' = None
    /\ auth_log' = Append(auth_log, "recurse")
    /\ auth_pc' = "start"
    /\ UNCHANGED <<token_file, credentials_file, auth_result>>
    /\ UNCHANGED <<genVars, searchVars, sheetVars, mainVars>>

\* lines 83-87: the token file is removed and the function calls itself; the
\* inner call starts with its own creds = None and its result is returned
\* as it is; an os.remove that raises leaves the function by the exception
AuthReauthenticate ==
    /\ auth_pc = "reauthenticate"
    /\ auth_depth < MaxAuthDepth
    /\ \E removed \in BOOLEAN :
          IF ~token_file \/ removed
          THEN /\ token_file' = FALSE
               /\ auth_depth' = auth_depth + 1
               /\ creds' = None
               /\ auth_log' = Append(auth_log, "recurse")
               /\ auth_result' = auth_result
               /\ auth_pc' = "start"
          ELSE /\ auth_result' = <<"raised">>
               /\ auth_pc' = "returned"
               /\ UNCHANGED <<token_file, auth_depth, creds, auth_log>>
    /\ UNCHANGED credentials_file
    /\ UNCHANGED <<genVars, searchVars, sheetVars, mainVars>>

\* ------------------------------------------------------------------------
\* Specification of one call of get_authenticated_service
\* ------------------------------------------------------------------------
AuthInit ==
    /\ auth_pc = "start"
    /\ creds = None
    /\ token_file \in BOOLEAN
    /\ credentials_file \in BOOLEAN
    /\ auth_depth = 0
    /\ auth_result = <<"pending">>
    /\ auth_log = <<>>
    /\ GenIdle /\ SearchIdle /\ SheetIdle /\ MainIdle

AuthNext ==
    \/ AuthLoadToken
    \/ AuthRefresh
    \/ AuthFlow
    \/ AuthBuildClient
    \/ AuthReauthenticate

\* the call is not interrupted: it goes on as long as it has a next step
AuthSpec == AuthInit /\ [][AuthNext]_vars /\ WF_vars(AuthNext)

\* ------------------------------------------------------------------------
\* Properties of get_authenticated_service
\* ------------------------------------------------------------------------
Count(log, entry) == Cardinality({n \in 1..Len(log) : log[n] = entry})

\* the entries of the log written by the recursive call
SinceRecursion ==
    {auth_log[n] : n \in {m \in 1..Len(auth_log) :
                            \E k \in 1..(m - 1) : auth_log[k] = "recurse"}}

\* C26: get_authenticated_service terminates, and the recursive call made
\* after a client built from the stored token failed happens at most once:
\* the token file is removed first, and the recursive call does nothing but
\* run the authorization flow or return None
C26_RecursionAtMostOnce ==
    /\ [](/\ auth_depth <= 1
          /\ Count(auth_log, "recurse") <= 1
          /\ auth_depth = 1 =>
               /\ SinceRecursion \subseteq {"oauth_flow"}
               /\ creds = None
               /\ auth_pc # "returned" => ~token_file
               /\ auth_pc = "returned" =>
                    \/ auth_result = <<"None">>
                    \/ /\ auth_result = <<"client">>
                       /\ auth_log[Len(auth_log)] = "oauth_flow")
    /\ <>(auth_pc = "returned")

\* the client built from the stored token failed, the function called itself
\* and the inner call authorized afresh
C26_Witness ==
    /\ auth_pc = "returned"
    /\ auth_depth = 1
    /\ auth_result = <<"client">>
    /\ Count(auth_log, "build_client") = 1
    /\ Count(auth_log, "recurse") = 1
    /\ token_file

\* ------------------------------------------------------------------------
\* src/sheets_manager.py: create_spreadsheet
\* ------------------------------------------------------------------------
\* main.py line 10
FOLDER_ID == "1hDvTg-y2Nl3DPNvFaPzfdhVhxeSaoga6"

\* main.py line 43: the configured output_sheet_name or the default
DefaultTitle == "Default Trip Planning Sheet"

SheetTitles == {DefaultTitle, "Weekend Trips", "Trip Options 2025", ""}

\* folder_id=None (the default), an empty id, and the folder main passes
FolderIds == {None, Some(""), Some(FOLDER_ID)}

\* lines 94-96: if not gc
SheetCheckClient ==
    /\ sheet_pc = "start"
    /\ IF sheet_gc = "None"
       THEN sheet_result' = <<"None">> /\ sheet_pc' = "returned"
       ELSE sheet_result' = sheet_result /\ sheet_pc' = "open"
    /\ UNCHANGED <<sheet_gc, sheet_title, sheet_folder_id, sheet_log>>
    /\ UNCHANGED <<genVars, searchVars, authVars, mainVars>>

\* lines 102-109 and 132-134: gc.open(title); the spreadsheet is returned,
\* SpreadsheetNotFound leads to the creation, and any other exception is
\* caught by the outer handler, which returns None
SheetOpen ==
    /\ sheet_pc = "open"
    /\ \E outcome \in {"ok", "SpreadsheetNotFound", "Exception"} :
          /\ sheet_log' = Append(sheet_log, <<"open", sheet_title, outcome>>)
          /\ CASE outcome = "ok" ->
                    /\ sheet_result' = <<"spreadsheet", "opened">>
                    /\ sheet_pc' = "returned"
               [] outcome = "SpreadsheetNotFound" ->
                    /\ sheet_result' = sheet_result
                    /\ sheet_pc' = "create"
               [] OTHER ->
                    /\ sheet_result' = <<"None">>
                    /\ sheet_pc' = "returned"
    /\ UNCHANGED <<sheet_gc, sheet_title, sheet_folder_id>>
    /\ UNCHANGED <<genVars, searchVars, authVars, mainVars>>

\* mutant of SheetCreate: the fallback is tried whatever folder_id is
SheetCreate_AlwaysFallback ==
    /\ sheet_pc = "create"
    /\ \E outcome \in {"ok", "Exception"} :
          /\ sheet_log' = Append(sheet_log, <<"create", sheet_title,
                                              sheet_folder_id, outcome>>)
          /\ IF outcome = "ok"
             THEN /\ sheet_result' = <<"spreadsheet", "created">>
                  /\ sheet_pc' = "returned"
             ELSE /\ sheet_result' = sheet_result
                  /\ sheet_pc' = "create_in_root"
    /\ UNCHANGED <<sheet_gc, sheet_title, sheet_folder_id>>
    /\ UNCHANGED <<genVars, searchVars, authVars, mainVars>>

\* lines 110-115 and 126-130: gc.create(title, folder_id=folder_id); if it
\* raises, the fallback follows only for a truthy folder_id
SheetCreate ==
    /\ sheet_pc = "create"
    /\ \E outcome \in {"ok", "Exception"} :
          /\ sheet_log' = Append(sheet_log, <<"create", sheet_title,
                                              sheet_folder_id, outcome>>)
          /\ IF outcome = "ok"
             THEN /\ sheet_result' = <<"spreadsheet", "created">>
                  /\ sheet_pc' = "returned"
             ELSE IF Truthy(sheet_folder_id)
             THEN /\ sheet_result' = sheet_result
                  /\ sheet_pc' = "create_in_root"
             ELSE /\ sheet_result' = <<"None">>
                  /\ sheet_pc' = "returned"
    /\ UNCHANGED <<sheet_gc, sheet_title, sheet_folder_id>>
    /\ UNCHANGED <<genVars, searchVars, authVars, mainVars>>

\* lines 116-125 and 130: gc.create(title), the fallback to the root
SheetCreateInRoot ==
    /\ sheet_pc = "create_in_root"
    /\ \E outcome \in {"ok", "Exception"} :
          /\ sheet_log' = Append(sheet_log, <<"create", sheet_title, None,
                                              outcome>>)
          /\ sheet_result' = IF outcome = "ok"
                             THEN <<"spreadsheet", "created_in_root">>
                             ELSE <<"None">>
    /\ sheet_pc' = "returned"
    /\ UNCHANGED <<sheet_gc, sheet_title, sheet_folder_id>>
    /\ UNCHANGED <<genVars, searchVars, authVars, mainVars>>

\* ------------------------------------------------------------------------
\* Specification of one call of create_spreadsheet
\* ------------------------------------------------------------------------
SheetInit ==
    /\ sheet_pc = "start"
    /\ sheet_gc \in {"None", "client"}
    /\ sheet_title \in SheetTitles
    /\ sheet_folder_id \in FolderIds
    /\ sheet_result = <<"pending">>
    /\ sheet_log = <<>>
    /\ GenIdle /\ SearchIdle /\ AuthIdle /\ MainIdle

SheetNext ==
    \/ SheetCheckClient
    \/ SheetOpen
    \/ SheetCreate
    \/ SheetCreateInRoot

SheetSpec == SheetInit /\ [][SheetNext]_vars

\* ------------------------------------------------------------------------
\* Properties of create_spreadsheet
\* ------------------------------------------------------------------------
Creates == {n \in 1..Len(sheet_log) : sheet_log[n][1] = "create"}

Succeeded(n) == sheet_log[n][Len(sheet_log[n])] = "ok"

\* C27: create_spreadsheet is create-or-open: a spreadsheet that can be
\* opened is returned and no create is issued; a create is issued only after
\* the open did not find the title, and the first one goes to the given
\* folder; a second create, in the root, is issued only if the first failed
\* and a folder_id was given; at most two creates are issued; and the result
\* is None whenever no open or create succeeded or no client was given
C27_CreateOrOpen ==
    /\ Cardinality(Creates) <= 2
    /\ \A n \in 1..Len(sheet_log) :
          /\ sheet_log[n][2] = sheet_title
          /\ n = 1 <=> sheet_log[n][1] = "open"
          /\ n = 2 =>
               /\ sheet_log[1][3] = "SpreadsheetNotFound"
               /\ sheet_log[n][3] = sheet_folder_id
          /\ n = 3 =>
               /\ ~Succeeded(2)
               /\ Truthy(sheet_folder_id)
               /\ sheet_log[n][3] = None
          /\ Succeeded(n) => n = Len(sheet_log) /\ sheet_pc = "returned"
    /\ sheet_gc = "None" => sheet_log = <<>>
    /\ sheet_pc = "returned" =>
          IF \E n \in 1..Len(sheet_log) : Succeeded(n)
          THEN sheet_result[1] = "spreadsheet"
          ELSE sheet_result = <<"None">>

\* the create in the folder failed and the fallback to the root succeeded
C27_Witness ==
    /\ sheet_pc = "returned"
    /\ Len(sheet_log) = 3
    /\ sheet_folder_id = Some(FOLDER_ID)
    /\ sheet_result = <<"spreadsheet", "created_in_root">>

\* an open that fails otherwise than by SpreadsheetNotFound ends the call
\* with None and without a create
C27_WitnessOpenError ==
    /\ sheet_pc = "returned"
    /\ Len(sheet_log) = 1
    /\ sheet_log[1][3] = "Exception"
    /\ sheet_result = <<"None">>

\* ------------------------------------------------------------------------
\* main.py: main
\* ------------------------------------------------------------------------
ConfigKeys ==
    {"output_sheet_name", "weekend_dates", "trip_length_options", "travelers",
     "destination_airport_options", "destination_parks",
     "preferred_hotel_brands"}

\* the dict {}: no key is present
EmptyDict == [key \in ConfigKeys |-> None]

\* config.get(key, default)
Get(d, key, default) == IF d[key] = None THEN default ELSE d[key][1]

\* "if not config" is false for a dict with at least one key
ConfigTruthy(c) == c # None /\ \E key \in ConfigKeys : c[1][key] # None

Traveler(name, origins, times) ==
    [name |-> name, origin_airport_options |-> origins, budget |-> None,
     preferred_times |-> times]

\* two trip periods; the first traveler has no origin airport
TwoPeriodsConfig ==
    [EmptyDict EXCEPT
       !["output_sheet_name"] = Some("Weekend Trips"),
       !["weekend_dates"] = Some(<< <<2025, 2, 29>>, <<2025, 6, 7>> >>),
       !["trip_length_options"] = Some(<<"none", "week_off", "friday_off">>),
       !["travelers"] = Some(<<Traveler("Ann", <<>>, None),
                               Traveler("Bob", <<"SFO">>, None)>>),
       !["destination_airport_options"] = Some(<<"LAS">>),
       !["destination_parks"] =
           Some(<<[name |-> "Zion", hotel_search_area |-> Some("Springdale")]>>),
       !["preferred_hotel_brands"] = Some(<<"Hyatt">>)]

\* one trip period and two travelers who can both be searched for
TwoTravelersConfig ==
    [EmptyDict EXCEPT
       !["weekend_dates"] = Some(<< <<2025, 6, 7>> >>),
       !["trip_length_options"] = Some(<<"monday_off">>),
       !["travelers"] = Some(<<Traveler("Bob", <<"SFO">>, None),
                               Traveler("Cid", <<"SFO">>,
                                        TimesDict({"outbound_departure_latest"}))>>),
       !["destination_airport_options"] = Some(<<"LAS">>),
       !["destination_parks"] =
           Some(<<[name |-> "Zion", hotel_search_area |-> None]>>)]

\* one trip period and nothing to search for
NoTravelersConfig ==
    [EmptyDict EXCEPT
       !["weekend_dates"] = Some(<< <<2025, 6, 7>> >>),
       !["trip_length_options"] = Some(<<"none">>),
       !["preferred_hotel_brands"] = Some(<<"Hyatt">>)]

\* no date of the configuration can be parsed
NoPeriodsConfig ==
    [EmptyDict EXCEPT
       !["weekend_dates"] = Some(<< <<2025, 2, 29>> >>),
       !["trip_length_options"] = Some(<<"none">>),
       !["travelers"] = Some(<<Traveler("Bob", <<"SFO">>, None)>>),
       !["destination_airport_options"] = Some(<<"LAS">>)]

\* what load_config can return: None, {} or a configuration
MainConfigs ==
    {None, Some(EmptyDict), Some(TwoPeriodsConfig), Some(TwoTravelersConfig),
     Some(NoTravelersConfig), Some(NoPeriodsConfig)}

Travelers == Get(config[1], "travelers", <<>>)

DestinationAirportOptions == Get(config[1], "destination_airport_options", <<>>)

\* the history of the stages: a stage is entered as running and its entry is
\* closed when main has looked at its result
Begin(log, stage) == Append(log, <<stage, "running">>)

SetLast(log, outcome) == [log EXCEPT ![Len(log)][2] = outcome]

\* lines 32-35 with load_config (lines 12-27)
LoadConfig ==
    /\ main_pc = "start"
    /\ \E c \in MainConfigs :
          /\ config' = c
          /\ main_log' = <<<<"load_config",
                             IF ConfigTruthy(c) THEN "ok" ELSE "failed">>>>
          /\ main_pc' = IF ConfigTruthy(c) THEN "authenticate" ELSE "stopped"
    /\ UNCHANGED <<trip_i, traveler_j, current_option_flights,
                   all_trip_data_for_sheet, flights_log>>
    /\ UNCHANGED <<genVars, searchVars, authVars, sheetVars>>

\* line 46: get_authenticated_service is called
Authenticate ==
    /\ main_pc = "authenticate"
    /\ auth_pc' = "start"
    /\ main_log' = Begin(main_log, "authenticate")
    /\ main_pc' = "authenticating"
    /\ UNCHANGED <<creds, token_file, credentials_file, auth_depth, auth_result,
                   auth_log>>
    /\ UNCHANGED <<config, trip_i, traveler_j, current_option_flights,
                   all_trip_data_for_sheet, flights_log>>
    /\ UNCHANGED <<genVars, searchVars, sheetVars>>

\* lines 46-55: without a client main returns; with one it calls
\* create_spreadsheet(gs_client, spreadsheet_title, folder_id=FOLDER_ID)
AuthReturned ==
    /\ main_pc = "authenticating"
    /\ auth_pc = "returned"
    /\ CASE auth_result = <<"client">> ->
              /\ main_log' = Begin(SetLast(main_log, "ok"), "create_spreadsheet")
              /\ main_pc' = "creating_spreadsheet"
              /\ sheet_pc' = "start"
              /\ sheet_gc' = "client"
              /\ sheet_title' = Get(config[1], "output_sheet_name", DefaultTitle)
              /\ sheet_folder_id' = Some(FOLDER_ID)
              /\ UNCHANGED <<sheet_result, sheet_log>>
         [] auth_result = <<"None">> ->
              /\ main_log' = SetLast(main_log, "failed")
              /\ main_pc' = "stopped"
              /\ UNCHANGED sheetVars
         [] OTHER ->
              /\ main_log' = SetLast(main_log, "raised")
              /\ main_pc' = "raised"
              /\ UNCHANGED sheetVars
    /\ auth_pc' = "idle"
    /\ creds' = None
    /\ auth_depth' = 0
    /\ auth_result' = <<"pending">>
    /\ auth_log' = <<>>
    /\ UNCHANGED <<token_file, credentials_file>>
    /\ UNCHANGED <<config, trip_i, traveler_j, current_option_flights,
                   all_trip_data_for_sheet, flights_log>>
    /\ UNCHANGED <<genVars, searchVars>>

\* mutant of SheetReturned: the spreadsheet is not checked
SheetReturned_Unchecked ==
    /\ main_pc = "creating_spreadsheet"
    /\ sheet_pc = "returned"
    /\ main_log' = Begin(SetLast(main_log,
                                 IF sheet_result = <<"None">> THEN "failed"
                                 ELSE "ok"), "generate")
    /\ main_pc' = "generating"
    /\ weekend_dates' = Get(config[1], "weekend_dates", <<>>)
    /\ trip_length_options' = Get(config[1], "trip_length_options", <<>>)
    /\ mpc' = "parse_dates"
    /\ di' = 1
    /\ UNCHANGED <<parsed_weekend_dates, ai, oj, all_trip_periods, period_src>>
    /\ sheet_pc' = "idle"
    /\ sheet_gc' = "None"
    /\ sheet_title' = ""
    /\ sheet_folder_id' = None
    /\ sheet_result' = <<"pending">>
    /\ sheet_log' = <<>>
    /\ UNCHANGED <<config, trip_i, traveler_j, current_option_flights,
                   all_trip_data_for_sheet, flights_log>>
    /\ UNCHANGED <<searchVars, authVars>>

\* lines 55-75: without a spreadsheet main returns; with one the dates of
\* the configuration are parsed and the trip periods generated
SheetReturned ==
    /\ main_pc = "creating_spreadsheet"
    /\ sheet_pc = "returned"
    /\ IF sheet_result = <<"None">>
       THEN /\ main_log' = SetLast(main_log, "failed")
            /\ main_pc' = "stopped"
            /\ UNCHANGED genVars
       ELSE /\ main_log' = Begin(SetLast(main_log, "ok"), "generate")
            /\ main_pc' = "generating"
            /\ weekend_dates' = Get(config[1], "weekend_dates", <<>>)
            /\ trip_length_options' = Get(config[1], "trip_length_options", <<>>)
            /\ mpc' = "parse_dates"
            /\ di' = 1
            /\ UNCHANGED <<parsed_weekend_dates, ai, oj, all_trip_periods,
                           period_src>>
    /\ sheet_pc' = "idle"
    /\ sheet_gc' = "None"
    /\ sheet_title' = ""
    /\ sheet_folder_id' = None
    /\ sheet_result' = <<"pending">>
    /\ sheet_log' = <<>>
    /\ UNCHANGED <<config, trip_i, traveler_j, current_option_flights,
                   all_trip_data_for_sheet, flights_log>>
    /\ UNCHANGED <<searchVars, authVars>>

\* lines 111-123: without a trip period main returns; otherwise the loop
\* over the trip periods begins
GenReturned ==
    /\ main_pc = "generating"
    /\ mpc = "gen_done"
    /\ IF all_trip_periods = <<>>
       THEN /\ main_log' = SetLast(main_log, "failed")
            /\ main_pc' = "stopped"
            /\ UNCHANGED <<trip_i, traveler_j>>
       ELSE /\ main_log' = Begin(SetLast(main_log, "ok"), "search")
            /\ main_pc' = "search"
            /\ trip_i' = 1
            /\ traveler_j' = 1
    /\ UNCHANGED <<config, current_option_flights, all_trip_data_for_sheet,
                   flights_log>>
    /\ UNCHANGED <<genVars, searchVars, authVars, sheetVars>>

\* lines 124-125 with flight_finder.py lines 124-127 and 609-612: find_flights
\* is called for the next traveler and reads its arguments
CallFindFlights ==
    /\ main_pc = "search"
    /\ trip_i <= Len(all_trip_periods)
    /\ traveler_j <= Len(Travelers)
    /\ spc = "idle"
    /\ origin_airport_options' = Travelers[traveler_j].origin_airport_options
    /\ destination_airports' = DestinationAirportOptions
    /\ traveler_budget' = Travelers[traveler_j].budget
    /\ preferred_times' = Travelers[traveler_j].preferred_times
    /\ spc' = "start"
    /\ main_pc' = "finding_flights"
    /\ UNCHANGED <<driver, search_success_status, flight_results_summary, exc,
                   retval, slider_k, slider_op, ui_log, quit_count,
                   sessions_created>>
    /\ UNCHANGED <<config, main_log, trip_i, traveler_j, current_option_flights,
                   all_trip_data_for_sheet, flights_log>>
    /\ UNCHANGED <<genVars, authVars, sheetVars>>

\* lines 125-127: "if flights: current_option_flights.extend(flights)"; the
\* locals of the finished call are gone
FlightsReturned ==
    /\ main_pc = "finding_flights"
    /\ spc = "returned"
    /\ current_option_flights' =
         IF retval[1] = "list" /\ retval[2] # <<>>
         THEN current_option_flights \o retval[2]
         ELSE current_option_flights
    /\ flights_log' = Append(flights_log,
                             <<trip_i, traveler_j, retval, search_success_status>>)
    /\ traveler_j' = traveler_j + 1
    /\ main_pc' = "search"
    /\ origin_airport_options' = <<>>
    /\ destination_airports' = <<>>
    /\ traveler_budget' = None
    /\ preferred_times' = None
    /\ spc' = "idle"
    /\ driver' = "unset"
    /\ search_success_status' = "unset"
    /\ flight_results_summary' = <<>>
    /\ exc' = "None"
    /\ retval' = <<"pending">>
    /\ slider_k' = 0
    /\ slider_op' = NoSliderOp
    /\ ui_log' = <<>>
    /\ UNCHANGED <<quit_count, sessions_created>>
    /\ UNCHANGED <<config, main_log, trip_i, all_trip_data_for_sheet>>
    /\ UNCHANGED <<genVars, authVars, sheetVars>>

\* car_rental_finder.py lines 6-39: one record if there is an airport
find_car_rentals(trip_period, airports) ==
    IF airports # <<>>
    THEN <<[pickup_location |-> airports[1],
            pickup_date |-> trip_period.start_date_str,
            dropoff_date |-> trip_period.end_date_str]>>
    ELSE <<>>

\* hotel_finder.py lines 6-44: one record if there is a location and a brand
find_hotels(trip_period, search_locations, preferred_brands) ==
    IF search_locations # <<>> /\ preferred_brands # <<>>
    THEN <<[search_location_type |-> search_locations[1].type,
            searched_at |-> search_locations[1].location_name,
            brand |-> preferred_brands[1],
            check_in_date |-> trip_period.start_date_str,
            check_out_date |-> trip_period.end_date_str]>>
    ELSE <<>>

\* lines 137-146: the airports, then the parks that name a search area
RECURSIVE ParkLocations(_)
ParkLocations(parks) ==
    IF parks = <<>> THEN <<>>
    ELSE (IF Truthy(parks[1].hotel_search_area)
          THEN <<[type |-> "park_area",
                  location_name |-> parks[1].hotel_search_area[1]]>>
          ELSE <<>>) \o ParkLocations(Tail(parks))

hotel_search_locations ==
    [k \in 1..Len(DestinationAirportOptions) |->
        [type |-> "airport", location_name |-> DestinationAirportOptions[k]]]
    \o ParkLocations(Get(config[1], "destination_parks", <<>>))

\* lines 165-172
trip_data_summary(trip_period) ==
    [trip_description |-> trip_period.description,
     start_date |-> trip_period.start_date_str,
     end_date |-> trip_period.end_date_str,
     flights_info |-> current_option_flights,
     car_rentals_info |->
         find_car_rentals(trip_period, DestinationAirportOptions),
     hotels_info |->
         find_hotels(trip_period, hotel_search_locations,
                     Get(config[1], "preferred_hotel_brands", <<>>))]

\* lines 134-173: the travelers of a trip period are through: the cars and
\* the hotels are looked up and the summary of the period is recorded; after
\* the last period main ends
SummarizeTrip ==
    /\ main_pc = "search"
    /\ trip_i <= Len(all_trip_periods)
    /\ traveler_j > Len(Travelers)
    /\ all_trip_data_for_sheet' =
         Append(all_trip_data_for_sheet,
                trip_data_summary(all_trip_periods[trip_i]))
    /\ trip_i' = trip_i + 1
    /\ traveler_j' = 1
    /\ current_option_flights' = <<>>
    /\ IF trip_i = Len(all_trip_periods)
       THEN main_pc' = "done" /\ main_log' = SetLast(main_log, "ok")
       ELSE main_pc' = "search" /\ main_log' = main_log
    /\ UNCHANGED <<config, flights_log>>
    /\ UNCHANGED <<genVars, searchVars, authVars, sheetVars>>

\* ------------------------------------------------------------------------
\* Specification of one run of main
\* ------------------------------------------------------------------------
MainInit ==
    /\ config = None
    /\ main_pc = "start"
    /\ main_log = <<>>
    /\ trip_i = 0
    /\ traveler_j = 0
    /\ current_option_flights = <<>>
    /\ all_trip_data_for_sheet = <<>>
    /\ flights_log = <<>>
    /\ auth_pc = "idle"
    /\ creds = None
    /\ token_file \in BOOLEAN
    /\ credentials_file \in BOOLEAN
    /\ auth_depth = 0
    /\ auth_result = <<"pending">>
    /\ auth_log = <<>>
    /\ SheetIdle /\ GenIdle /\ SearchIdle

MainNext ==
    \/ LoadConfig
    \/ Authenticate
    \/ AuthLoadToken
    \/ AuthRefresh
    \/ AuthFlow
    \/ AuthBuildClient
    \/ AuthReauthenticate
    \/ AuthReturned
    \/ SheetCheckClient
    \/ SheetOpen
    \/ SheetCreate
    \/ SheetCreateInRoot
    \/ SheetReturned
    \/ ParseDate
    \/ ParseDone
    \/ GenPeriod
    \/ SkipUnknownOption
    \/ NextSatDate
    \/ GenDone
    \/ GenReturned
    \/ CallFindFlights
    \/ CheckInputs
    \/ GetWebdriver
    \/ Navigate
    \/ ConsentDialog
    \/ FillOrigin
    \/ FillDestination
    \/ FillDates
    \/ Submit
    \/ WaitResults
    \/ ApplyStopsFilter
    \/ OpenPriceFilter
    \/ SetPrice
    \/ OpenTimesFilter
    \/ WaitTimesDialog
    \/ SetTimeSlider
    \/ CloseTimesDialog
    \/ AppendAndReturn
    \/ HandleException
    \/ Finally
    \/ FlightsReturned
    \/ SummarizeTrip

MainSpec == MainInit /\ [][MainNext]_vars

\* ------------------------------------------------------------------------
\* Properties of one run of main
\* ------------------------------------------------------------------------
MainStages ==
    <<"load_config", "authenticate", "create_spreadsheet", "generate", "search">>

\* no flight search was started, and no car or hotel looked up for a summary
NoSearchStarted ==
    /\ spc = "idle"
    /\ sessions_created = 0
    /\ flights_log = <<>>
    /\ all_trip_data_for_sheet = <<>>

\* the stages after the n-th have not run
LaterStagesUntouched(n) ==
    /\ n < 2 => auth_pc = "idle" /\ auth_log = <<>>
    /\ n < 3 => sheet_pc = "idle" /\ sheet_log = <<>>
    /\ n < 4 => mpc = "idle" /\ all_trip_periods = <<>>
    /\ n < 5 => NoSearchStarted

MainStagesInOrder ==
    /\ Len(main_log) <= Len(MainStages)
    /\ \A n \in 1..Len(main_log) :
          /\ main_log[n][1] = MainStages[n]
          /\ n < Len(main_log) => main_log[n][2] = "ok"
    /\ LaterStagesUntouched(Len(main_log))

FailedStageStops ==
    /\ (main_log # <<>> /\ ~ConfigTruthy(config)) =>
          main_log = <<<<"load_config", "failed">>>>
    /\ (Len(main_log) = 4 /\ mpc = "gen_done" /\ main_pc # "generating"
          /\ all_trip_periods = <<>>) => main_log[4][2] = "failed"
    /\ (main_log # <<>> /\ main_log[Len(main_log)][2] = "failed") =>
          main_pc = "stopped" /\ NoSearchStarted
    /\ main_pc = "stopped" => main_log[Len(main_log)][2] = "failed"

StoppedForGood == main_pc = "stopped" => UNCHANGED vars

\* C24: main runs its stages in the order load config, authenticate,
\* create-or-open spreadsheet, generate trip periods, search: a stage begins
\* only after every earlier one succeeded; if a stage fails (config not
\* loaded, authentication failed, spreadsheet not obtained, no trip period
\* generated) main stops there, nothing changes any more and no flight,
\* car-rental or hotel search is ever started
C24_StagesInOrderFailureStops ==
    /\ [](MainStagesInOrder /\ FailedStageStops)
    /\ [][StoppedForGood]_vars

\* main stopped because no trip period was generated
C24_Witness ==
    /\ main_pc = "stopped"
    /\ main_log = <<<<"load_config", "ok">>, <<"authenticate", "ok">>,
                    <<"create_spreadsheet", "ok">>, <<"generate", "failed">>>>
    /\ NoSearchStarted

\* main stopped because the spreadsheet was not obtained
C24_WitnessNoSpreadsheet ==
    /\ main_pc = "stopped"
    /\ main_log[Len(main_log)] = <<"create_spreadsheet", "failed">>
    /\ mpc = "idle"

\* main went through all its stages
C24_WitnessAllStages ==
    /\ main_pc = "done"
    /\ Len(main_log) = 5
    /\ main_log[5] = <<"search", "ok">>
    /\ flights_log # <<>>

\* the sessions created so far and not closed
OpenSessions == sessions_created - quit_count

\* the find_flights calls were made in the order of the nested loops
CallsInLoopOrder ==
    \A m, n \in 1..Len(flights_log) :
        m < n =>
          \/ flights_log[m][1] < flights_log[n][1]
          \/ /\ flights_log[m][1] = flights_log[n][1]
             /\ flights_log[m][2] < flights_log[n][2]

SessionClosedBeforeNextCall ==
    (main_pc' = "finding_flights" /\ main_pc # "finding_flights") =>
      /\ OpenSessions = 0
      /\ OpenSessions' = 0
      /\ driver' = "unset"

\* C21: over a whole run of main at most one automation session is open at
\* any moment, and the session of one (trip period, traveler) search is
\* closed before the search for the next traveler or the next trip period
\* begins, whatever the outcome of the earlier search
C21_SearchesSequential ==
    /\ [](/\ OpenSessions = (IF driver = "open" THEN 1 ELSE 0)
          /\ main_pc # "finding_flights" => OpenSessions = 0
          /\ spc \in {"idle", "start", "get_webdriver", "returned"} =>
               OpenSessions = 0
          /\ CallsInLoopOrder)
    /\ [][SessionClosedBeforeNextCall]_vars

\* a second search has its session open after a first search, which failed
\* and returned nothing, had its own
C21_Witness ==
    /\ Len(flights_log) = 1
    /\ flights_log[1][3] = <<"None">>
    /\ main_pc = "finding_flights"
    /\ driver = "open"
    /\ sessions_created = 2
    /\ quit_count = 1

\* the same from one trip period to the next
C21_WitnessNextPeriod ==
    /\ trip_i = 2
    /\ main_pc = "finding_flights"
    /\ driver = "open"
    /\ sessions_created = 2
    /\ quit_count = 1

\* the records a find_flights call handed to main
ReturnedRecords(call) == IF call[3][1] = "list" THEN call[3][2] ELSE <<>>

\* the concatenation, in call order, of what the first n calls returned for
\* trip period i
RECURSIVE ConcatReturned(_, _)
ConcatReturned(i, n) ==
    IF n = 0 THEN <<>>
    ELSE ConcatReturned(i, n - 1)
         \o (IF flights_log[n][1] = i THEN ReturnedRecords(flights_log[n])
             ELSE <<>>)

CallsFor(i) == {n \in 1..Len(flights_log) : flights_log[n][1] = i}

\* one summary per trip period dealt with, in generation order, each with
\* the concatenation of what was returned for its travelers
OneSummaryPerPeriod ==
    /\ main_pc = "done" => Len(all_trip_data_for_sheet) = Len(all_trip_periods)
    /\ main_pc \in {"search", "finding_flights"} =>
          Len(all_trip_data_for_sheet) = trip_i - 1
    /\ \A k \in 1..Len(all_trip_data_for_sheet) :
          /\ all_trip_data_for_sheet[k].trip_description =
               all_trip_periods[k].description
          /\ all_trip_data_for_sheet[k].start_date =
               all_trip_periods[k].start_date_str
          /\ all_trip_data_for_sheet[k].end_date =
               all_trip_periods[k].end_date_str
          /\ all_trip_data_for_sheet[k].flights_info =
               ConcatReturned(k, Len(flights_log))
          /\ Cardinality(CallsFor(k)) = Len(Travelers)

\* the call of a traveler left at least one record, and after a failure
\* caught by the top-level handlers its last record carries the error status
Represented(call) ==
    /\ ReturnedRecords(call) # <<>>
    /\ call[4] \in {"ERROR_TIMEOUT", "ERROR_NO_SUCH_ELEMENT",
                     "ERROR_SELENIUM_GENERAL"} =>
          ReturnedRecords(call)[Len(ReturnedRecords(call))].status = call[4]

\* C25: for every run of main that reaches the search stage exactly one
\* summary is recorded per generated trip period, in generation order, its
\* flights_info is the concatenation, in traveler order, of the records
\* find_flights returned for each traveler, and every traveler, also one
\* whose search failed, is represented by a record with the status
C25_EveryTravelerRepresented ==
    /\ OneSummaryPerPeriod
    /\ \A n \in 1..Len(flights_log) : Represented(flights_log[n])

\* what does hold: the summaries are one per period, in order, and hold what
\* the calls returned
C25_OneSummaryPerPeriod == OneSummaryPerPeriod

\* a run is over with a summary that holds no record for a traveler whose
\* search timed out
C25_FailedTravelerMissing ==
    /\ main_pc = "done"
    /\ \E n \in 1..Len(flights_log) :
          /\ flights_log[n][3] = <<"None">>
          /\ flights_log[n][4] = "ERROR_TIMEOUT"
          /\ Len(all_trip_data_for_sheet[flights_log[n][1]].flights_info)
               < Cardinality(CallsFor(flights_log[n][1]))

====
